---- MODULE Spec2Model ----
(***************************************************************************)
(* Team-defense aggregation cache and background cache warmer of the       *)
(* nbastats repository: src/teamdefensestatsperrole.py (cache files,       *)
(* per-team and all-teams aggregation) and src/server.py (the              *)
(* /team-defense handler and _schedule_all_cache_build).                   *)
(***************************************************************************)
EXTENDS Integers, Sequences, FiniteSets, TLC

VARIABLES
    cache,      \* the cache directory: file name -> JSON content
    building,   \* server._cache_building: set of <<season, exclude_dnp>>
    th,         \* request-handler threads and warm-build threads
    fetches,    \* history: <<thread, team>> computations that called the provider
    stored,     \* history: <<ALL-file name, team>> merges written to a bulk entry
    ops,        \* command-line runs and library calls completed one after another
    scan,       \* one aggregation followed game by game (lines 352-490)
    form,       \* sottomediapartita.compute_last5_stats applied to a game log
    adv,        \* server2.stats_adv / attach_z_scores: one call and its result
    lookup,     \* one resolution of a team identifier and its result
    retry       \* one provider call of the core: its attempts and its end

vars == <<cache, building, th, fetches, stored, ops, scan, form, adv, lookup, retry>>

---------------------------------------------------------------------------
(* Bounds of the model *)

NumTeams == 2       \* known teams (teams.get_teams())
NumWorkers == 2     \* concurrent /team-defense requests
MaxGames == 1       \* games the provider reports for a team
MaxOps == 2         \* sequential runs of the command line / library calls
NumGames == 3       \* games of the season known to the provider
MaxScans == 2       \* aggregations followed game by game, one after another
MaxLog == 7         \* rows of a player's game log
MaxStat == 2        \* largest stat value in a player's game log
MaxAvg == 3         \* largest season average and last-5 average of a player
MaxPer100 == 2      \* largest per-100 level of a team's defense

---------------------------------------------------------------------------
(* Values *)

NoneV == [tag |-> "none"]           \* Python None
Corrupt == [tag |-> "corrupt"]      \* a file json.load cannot parse
EmptyMap == [x \in {} |-> NoneV]    \* {}

MapPut(m, k, v) == [x \in DOMAIN m \cup {k} |-> IF x = k THEN v ELSE m[x]]

TeamAbbrs == <<"ATL", "BOS", "CHI", "DAL">>
Teams == {TeamAbbrs[i] : i \in 1..NumTeams}
SortedTeams == [i \in 1..NumTeams |-> TeamAbbrs[i]]

Seasons == {"2025-26"}
RoleModes == {"roster", "start", "either"}
DefaultRoleMode == "either"
DefaultSeasonTypes == <<"Regular Season">>
Buckets == {"G", "F", "C", "OTHER"}

---------------------------------------------------------------------------
(* Cache helpers *)

LoadCache(c, name) ==
    IF name \in DOMAIN c /\ c[name] # Corrupt THEN c[name] ELSE NoneV

SaveCache(c, name, data) == MapPut(c, name, data)

CacheSuffix(exclude_dnp) == IF exclude_dnp THEN "exdnp" ELSE "incldnp"

Lower(s) ==
    CASE s = "Roster" -> "roster"
      [] s = "Start" -> "start"
      [] s = "Either" -> "either"
      [] OTHER -> s

RECURSIVE Join(_, _)
Join(parts, sep) ==
    IF Len(parts) = 0 THEN ""
    ELSE IF Len(parts) = 1 THEN parts[1]
    ELSE parts[1] \o sep \o Join(Tail(parts), sep)

SeasonTypesKey(season_types) == Join(season_types, "|")

TeamCacheName(team_abbr, season, exclude_dnp, role_mode, season_types_key) ==
    "def_by_pos_box_pergame_" \o team_abbr \o "_" \o season \o "_"
        \o CacheSuffix(exclude_dnp) \o "_" \o Lower(role_mode) \o "_"
        \o season_types_key \o ".json"

\* the bulk file name without the role_key part
AllCacheNameNoRole(season, exclude_dnp, role_mode, season_types_key) ==
    "def_by_pos_box_pergame_ALL_" \o season \o "_"
        \o CacheSuffix(exclude_dnp) \o "_" \o season_types_key \o ".json"

AllCacheName(season, exclude_dnp, role_mode, season_types_key) ==
    "def_by_pos_box_pergame_ALL_" \o season \o "_"
        \o CacheSuffix(exclude_dnp) \o "_" \o Lower(role_mode) \o "_"
        \o season_types_key \o ".json"

LoadAllCache(c, season, exclude_dnp, role_mode, season_types_key) ==
    LoadCache(c, AllCacheName(season, exclude_dnp, role_mode, season_types_key))

\* A bulk entry; has_teams is FALSE for a dict without a "teams" key.
NewAllEntry(season, exclude_dnp, role_mode, season_types) ==
    [tag |-> "all", season |-> season, exclude_dnp |-> exclude_dnp,
     role_mode |-> role_mode, season_types |-> season_types,
     has_teams |-> TRUE, teams |-> EmptyMap]

IsDict(v) == v.tag \in {"all", "agg", "games"}
Truthy(v) == v # NoneV

\* cached.get("teams"): the teams map, or None when the key is missing
HasTeamsMap(v) == IsDict(v) /\ v.tag = "all" /\ v.has_teams

\* cached.get("teams", {})
TeamsOrEmpty(v) == IF HasTeamsMap(v) THEN v.teams ELSE EmptyMap

\* a merge that keeps no other team of the loaded entry
MergeTeamFresh(loaded, season, exclude_dnp, role_mode, season_types, team_result) ==
    LET cached == IF Truthy(loaded) THEN loaded
                  ELSE NewAllEntry(season, exclude_dnp, role_mode, season_types)
    IN [cached EXCEPT !.has_teams = TRUE,
                      !.teams = MapPut(EmptyMap,
                                       team_result.target_team_abbr, team_result)]

\* lines 86-94 of _update_all_cache: the entry that is saved
MergeTeam(loaded, season, exclude_dnp, role_mode, season_types, team_result) ==
    LET cached == IF Truthy(loaded) THEN loaded
                  ELSE NewAllEntry(season, exclude_dnp, role_mode, season_types)
    IN [cached EXCEPT !.has_teams = TRUE,
                      !.teams = MapPut(TeamsOrEmpty(cached),
                                       team_result.target_team_abbr, team_result)]

UpdateAllCache(c, season, exclude_dnp, role_mode, season_types, team_result) ==
    LET name == AllCacheName(season, exclude_dnp, role_mode,
                             SeasonTypesKey(season_types))
    IN SaveCache(c, name, MergeTeam(LoadCache(c, name), season, exclude_dnp,
                                    role_mode, season_types, team_result))

ExpectedTeams == Cardinality(Teams)

\* readiness with a strict comparison against the expected count
IsAllTeamCacheReadyStrict(c, season, exclude_dnp, role_mode, season_types) ==
    LET cached == LoadAllCache(c, season, exclude_dnp, role_mode,
                               SeasonTypesKey(season_types))
    IN IF ~Truthy(cached) \/ ~IsDict(cached) THEN FALSE
       ELSE IF ~HasTeamsMap(cached) THEN FALSE
       ELSE Cardinality(DOMAIN cached.teams) > ExpectedTeams

IsAllTeamCacheReady(c, season, exclude_dnp, role_mode, season_types) ==
    LET cached == LoadAllCache(c, season, exclude_dnp, role_mode,
                               SeasonTypesKey(season_types))
    IN IF ~Truthy(cached) \/ ~IsDict(cached) THEN FALSE
       ELSE IF ~HasTeamsMap(cached) THEN FALSE
       ELSE Cardinality(DOMAIN cached.teams) >= ExpectedTeams

---------------------------------------------------------------------------
(* Position buckets *)

\* raw position strings of the sampled rows
NormalizeFirstToken(pos) ==
    CASE pos = "" -> "UNK"
      [] pos = "G-F" -> "G"
      [] pos = "F-C" -> "F"
      [] pos = "Guard" -> "G"
      [] pos = "Forward" -> "F"
      [] pos = "Center" -> "C"
      [] OTHER -> pos

ToBucketFromTokens(token) ==
    IF token \in {"PG", "SG", "G"} THEN "G"
    ELSE IF token \in {"SF", "PF", "F"} THEN "F"
    ELSE IF token = "C" THEN "C"
    ELSE "OTHER"

ChooseBucket(start_pos, roster_pos, role_mode) ==
    LET start_tok == NormalizeFirstToken(start_pos)
        roster_tok == NormalizeFirstToken(roster_pos)
    IN IF role_mode = "start" THEN ToBucketFromTokens(start_tok)
       ELSE IF role_mode = "roster" THEN ToBucketFromTokens(roster_tok)
       ELSE ToBucketFromTokens(IF start_tok \notin {"", "UNK"} THEN start_tok
                               ELSE roster_tok)

---------------------------------------------------------------------------
(* The per-team aggregate *)

\* Opponent rows of a boxscore as the provider returns them: a starter listed
\* as forward whose roster position is guard, and a bench player (no start
\* position) listed as center on the roster who did not play.
SampleRows ==
    { [start_pos |-> "F", roster_pos |-> "G", min |-> 30, pts |-> 10],
      [start_pos |-> "", roster_pos |-> "C", min |-> 0, pts |-> 4] }

RECURSIVE SumPts(_)
SumPts(rows) ==
    IF rows = {} THEN 0
    ELSE LET r == CHOOSE x \in rows : TRUE IN r.pts + SumPts(rows \ {r})

\* rows that pass the DNP filter
ScannedRows(exclude_dnp) ==
    {r \in SampleRows : ~(exclude_dnp /\ r.min = 0)}

\* by_position_per_game after scanning n games with the sampled rows
ByPosition(n, role_mode, exclude_dnp) ==
    LET rows == ScannedRows(exclude_dnp)
        bucketOf(r) == ChooseBucket(r.start_pos, r.roster_pos, role_mode)
        present == IF n = 0 THEN {} ELSE {bucketOf(r) : r \in rows}
    IN [b \in present |->
            [total_pts_sum |-> n * SumPts({r \in rows : bucketOf(r) = b}),
             games_with_bucket |-> n,
             games_scanned |-> n]]

\* the dict built at lines 480-490
ComputeAggregate(team_abbr, season, exclude_dnp, role_mode, season_types, n) ==
    [tag |-> "agg", target_team_abbr |-> team_abbr, season |-> season,
     season_types |-> season_types, role_mode |-> role_mode,
     by_position |-> ByPosition(n, role_mode, exclude_dnp),
     games_scanned |-> n, exclude_dnp |-> exclude_dnp]

---------------------------------------------------------------------------
(* Games discovery: get_team_game_ids *)

\* GAME_ID strings of the provider, in sorted order; a game is named by its
\* index, so the order of the indices is the order of the strings
GameIdStr == <<"0022500001", "0022500002", "0042500101", "0042500102">>

Games == 1..NumGames

\* the provider's season type of a game: 002... regular season, 004... playoffs
SeasonTypeOf(g) == IF g <= 2 THEN "Regular Season" ELSE "Playoffs"

\* what TeamGameLog answers for a season type when it answers: the games of
\* that type, or an empty frame
TglResults(stype) == { {g \in Games : SeasonTypeOf(g) = stype}, {} }

\* what LeagueGameFinder answers when it answers: the team's games of the
\* season, of every season type
LgfResults == { Games }

\* outcome of the queries of one call: per season type whether one of the
\* three attempts answered (ok) and the ids of the answer; for
\* LeagueGameFinder whether its one attempt answered and with which ids
TglOutcomes(stype) ==
    {[ok |-> FALSE, ids |-> {}]} \cup [ok : {TRUE}, ids : TglResults(stype)]

LgfOutcomes == [ok : BOOLEAN, ids : LgfResults]

GamesCacheName(team_abbr, season, season_types_key) ==
    "team_games_" \o team_abbr \o "_" \o season \o "_" \o season_types_key
        \o ".json"

NewGamesEntry(team_abbr, season, season_types) ==
    [tag |-> "games", season |-> season, team |-> team_abbr,
     season_types |-> season_types, game_ids |-> <<>>]

SetOf(seq) == {seq[i] : i \in 1..Len(seq)}

RECURSIVE SortedSeq(_)
\* sorted(found_ids)
SortedSeq(S) ==
    IF S = {} THEN <<>>
    ELSE LET m == CHOOSE x \in S : \A y \in S : x <= y
         IN <<m>> \o SortedSeq(S \ {m})

\* ids a TeamGameLog loop adds: none when every attempt raised
TglFound(o) == IF o.ok THEN o.ids ELSE {}

\* get_team_game_ids without the LeagueGameFinder ids
GetTeamGameIdsNoLgf(c, team_abbr, season, season_types, refresh, tgl, lgf) ==
    LET cache_name == GamesCacheName(team_abbr, season,
                                     SeasonTypesKey(season_types))
        loaded == IF refresh THEN NoneV ELSE LoadCache(c, cache_name)
        cached == IF Truthy(loaded) /\ IsDict(loaded) THEN loaded
                  ELSE NewGamesEntry(team_abbr, season, season_types)
        from_tgl == UNION {TglFound(tgl[i]) : i \in 1..Len(season_types)}
        found_ids == SetOf(cached.game_ids) \cup from_tgl
        game_ids_sorted == SortedSeq(found_ids)
    IN [ids |-> game_ids_sorted,
        cache |-> SaveCache(c, cache_name,
                            [cached EXCEPT !.game_ids = game_ids_sorted])]

\* get_team_game_ids: tgl is the sequence of outcomes, one per season type;
\* the result is the returned list and the cache directory after the call
GetTeamGameIds(c, team_abbr, season, season_types, refresh, tgl, lgf) ==
    LET cache_name == GamesCacheName(team_abbr, season,
                                     SeasonTypesKey(season_types))
        loaded == IF refresh THEN NoneV ELSE LoadCache(c, cache_name)
        cached == IF Truthy(loaded) /\ IsDict(loaded) THEN loaded
                  ELSE NewGamesEntry(team_abbr, season, season_types)
        from_tgl == UNION {TglFound(tgl[i]) : i \in 1..Len(season_types)}
        from_lgf == IF lgf.ok THEN lgf.ids ELSE {}
        found_ids == SetOf(cached.game_ids) \cup from_tgl \cup from_lgf
        game_ids_sorted == SortedSeq(found_ids)
    IN [ids |-> game_ids_sorted,
        cache |-> SaveCache(c, cache_name,
                            [cached EXCEPT !.game_ids = game_ids_sorted])]

---------------------------------------------------------------------------
(* Boxscores and the per-game accumulation (lines 352-478) *)

\* a stat or a MIN value the provider left null
NullStat == -1

\* build_player_position_map: roster POSITION by PLAYER_ID
RosterPosition(pid) ==
    CASE pid = 1 -> "F"
      [] pid = 2 -> "G"
      [] pid = 3 -> "C"
      [] pid = 4 -> "G-F"
      [] pid = 5 -> "F"
      [] OTHER -> "UNK"

BoxRow(pid, team, min, pts, reb, ast, start_pos) ==
    [player_id |-> pid, team |-> team, min |-> min, pts |-> pts,
     reb |-> reb, ast |-> ast, start_pos |-> start_pos]

\* PlayerStats frame of BoxScoreTraditionalV2 for each game (ATL against
\* BOS); in the third game the only ATL row did not play, a further game
\* has an empty frame
BoxRows(g) ==
    CASE g = 1 -> << BoxRow(1, "BOS", "31:25", 8, 5, 2, "F"),
                     BoxRow(5, "BOS", "28:00", 4, 1, 0, "F"),
                     BoxRow(2, "BOS", "", NullStat, NullStat, NullStat, ""),
                     BoxRow(3, "ATL", "28:00", 10, 9, 1, "C") >>
      [] g = 2 -> << BoxRow(1, "BOS", "35:10", 18, 4, 3, "F"),
                     BoxRow(2, "BOS", "20:00", 7, 1, 6, ""),
                     BoxRow(3, "ATL", "30", 8, 8, 0, "C"),
                     BoxRow(4, "ATL", "0:00", 0, 0, 0, "") >>
      [] g = 3 -> << BoxRow(2, "BOS", "33:00", 9, 2, 8, "G"),
                     BoxRow(4, "ATL", "0:00", 0, 0, 0, "") >>
      [] OTHER -> << >>

BoxCacheName(g) == "box_" \o GameIdStr[g] \o ".json"

\* df_players.to_dict(orient="records") as written to box_<id>.json
BoxEntry(rows) == [tag |-> "box", rows |-> rows]

\* "if box_cached": a loaded, non-empty list of rows
BoxTruthy(v) == v # NoneV /\ v.tag = "box" /\ v.rows # << >>

\* parse_min_to_float, in seconds: None for a null value
ParseMinToFloat(min_val) ==
    CASE min_val = "" -> NullStat
      [] min_val = "0:00" -> 0
      [] min_val = "20:00" -> 1200
      [] min_val = "28:00" -> 1680
      [] min_val = "30" -> 1800
      [] min_val = "30:00" -> 1800
      [] min_val = "31:25" -> 1885
      [] min_val = "33:00" -> 1980
      [] min_val = "35:10" -> 2110
      [] OTHER -> NullStat

\* _flt: a null stat counts as 0.0
Flt(x) == IF x = NullStat THEN 0 ELSE x

Stats == {"PTS", "REB", "AST"}

StatOf(r, stat) ==
    CASE stat = "PTS" -> Flt(r.pts)
      [] stat = "REB" -> Flt(r.reb)
      [] OTHER -> Flt(r.ast)

\* the DNP policy applied to the rows of both teams
CountedAnyTeam(r, targ, exclude_dnp) ==
    ~(exclude_dnp /\ ParseMinToFloat(r.min) \in {NullStat, 0})

\* lines 400-408: the row is of an opponent and passes the DNP policy
Counted(r, targ, exclude_dnp) ==
    /\ r.team # targ
    /\ ~(exclude_dnp /\ ParseMinToFloat(r.min) \in {NullStat, 0})

\* lines 429-431
BucketOfRow(r, role_mode) ==
    ChooseBucket(r.start_pos, RosterPosition(r.player_id), role_mode)

RECURSIVE SumRows(_, _, _)
\* the sum of one stat over the rows (a sequence) that satisfy keep
SumRows(rows, keep, stat) ==
    IF rows = << >> THEN 0
    ELSE (IF keep[1] THEN StatOf(Head(rows), stat) ELSE 0)
            + SumRows(Tail(rows), Tail(keep), stat)

\* per_game_bucket after the loop of lines 399-435
PerGameBucket(rows, targ, exclude_dnp, role_mode) ==
    LET idx == {i \in 1..Len(rows) : Counted(rows[i], targ, exclude_dnp)}
        present == {BucketOfRow(rows[i], role_mode) : i \in idx}
        inb(b) == [i \in 1..Len(rows) |->
                      i \in idx /\ BucketOfRow(rows[i], role_mode) = b]
    IN [b \in present |->
            [PTS |-> SumRows(rows, inb(b), "PTS"),
             REB |-> SumRows(rows, inb(b), "REB"),
             AST |-> SumRows(rows, inb(b), "AST")]]

NoTotals == [PTS_sum |-> 0, REB_sum |-> 0, AST_sum |-> 0, games_with_bucket |-> 0]

TotalsOf(totals, b) == IF b \in DOMAIN totals THEN totals[b] ELSE NoTotals

\* the accumulation with games_scanned stuck at the first scanned game
AddGameScannedOnce(acc, pgb) ==
    IF DOMAIN pgb = {} THEN acc
    ELSE [totals |->
             [b \in DOMAIN acc.totals \cup DOMAIN pgb |->
                 IF b \in DOMAIN pgb
                 THEN [PTS_sum |-> TotalsOf(acc.totals, b).PTS_sum + pgb[b].PTS,
                       REB_sum |-> TotalsOf(acc.totals, b).REB_sum + pgb[b].REB,
                       AST_sum |-> TotalsOf(acc.totals, b).AST_sum + pgb[b].AST,
                       games_with_bucket |->
                           TotalsOf(acc.totals, b).games_with_bucket + 1]
                 ELSE acc.totals[b]],
          games_scanned |-> 1]

\* lines 437-446: totals and games_scanned after one more game
AddGame(acc, pgb) ==
    IF DOMAIN pgb = {} THEN acc
    ELSE [totals |->
             [b \in DOMAIN acc.totals \cup DOMAIN pgb |->
                 IF b \in DOMAIN pgb
                 THEN [PTS_sum |-> TotalsOf(acc.totals, b).PTS_sum + pgb[b].PTS,
                       REB_sum |-> TotalsOf(acc.totals, b).REB_sum + pgb[b].REB,
                       AST_sum |-> TotalsOf(acc.totals, b).AST_sum + pgb[b].AST,
                       games_with_bucket |->
                           TotalsOf(acc.totals, b).games_with_bucket + 1]
                 ELSE acc.totals[b]],
          games_scanned |-> acc.games_scanned + 1]

\* round(total / n, 3) in thousandths, 0 for n = 0 (no tie occurs for the
\* game counts of the model)
PerGame(total, n) ==
    IF n > 0 THEN (2 * 1000 * total + n) \div (2 * n) ELSE 0

\* the metrics with games_scanned as the only denominator
MetricsOneDenominator(totals, games_scanned) ==
    [b \in DOMAIN totals |->
        [total_pts_sum |-> totals[b].PTS_sum,
         total_reb_sum |-> totals[b].REB_sum,
         total_ast_sum |-> totals[b].AST_sum,
         games_with_bucket |-> totals[b].games_with_bucket,
         games_scanned |-> games_scanned,
         pts_per_game |-> PerGame(totals[b].PTS_sum, games_scanned),
         reb_per_game |-> PerGame(totals[b].REB_sum, games_scanned),
         ast_per_game |-> PerGame(totals[b].AST_sum, games_scanned),
         pts_per_game_when_present |-> PerGame(totals[b].PTS_sum, games_scanned),
         reb_per_game_when_present |-> PerGame(totals[b].REB_sum, games_scanned),
         ast_per_game_when_present |-> PerGame(totals[b].AST_sum, games_scanned)]]

\* lines 449-478
Metrics(totals, games_scanned) ==
    [b \in DOMAIN totals |->
        [total_pts_sum |-> totals[b].PTS_sum,
         total_reb_sum |-> totals[b].REB_sum,
         total_ast_sum |-> totals[b].AST_sum,
         games_with_bucket |-> totals[b].games_with_bucket,
         games_scanned |-> games_scanned,
         pts_per_game |-> PerGame(totals[b].PTS_sum, games_scanned),
         reb_per_game |-> PerGame(totals[b].REB_sum, games_scanned),
         ast_per_game |-> PerGame(totals[b].AST_sum, games_scanned),
         pts_per_game_when_present |->
             PerGame(totals[b].PTS_sum, totals[b].games_with_bucket),
         reb_per_game_when_present |->
             PerGame(totals[b].REB_sum, totals[b].games_with_bucket),
         ast_per_game_when_present |->
             PerGame(totals[b].AST_sum, totals[b].games_with_bucket)]]

\* the dict built at lines 480-490 from the scan
ScanAggregate(team_abbr, season, exclude_dnp, role_mode, season_types, acc) ==
    [tag |-> "agg", target_team_abbr |-> team_abbr, season |-> season,
     season_types |-> season_types, role_mode |-> role_mode,
     by_position |-> Metrics(acc.totals, acc.games_scanned),
     games_scanned |-> acc.games_scanned, exclude_dnp |-> exclude_dnp]

---------------------------------------------------------------------------
(* One aggregation followed game by game, and the player form tracker *)

\* role modes of the followed aggregations (--role-mode)
ScanRoleModes == {"start", "either"}

\* season-type lists of the followed aggregations
ScanSeasonTypes == { <<"Regular Season">>, <<"Regular Season", "Playoffs">> }

NoAcc == [totals |-> EmptyMap, games_scanned |-> 0]

\* locals of compute_defense_by_position_boxscore_per_game;
\* pre, answered, fetched, rewrote and skipped record what the run did
IdleScan(count) ==
    [pc |-> "idle", count |-> count, team |-> "", season |-> "", ex |-> FALSE,
     role |-> DefaultRoleMode, st |-> DefaultSeasonTypes, refresh |-> FALSE,
     debug |-> FALSE, ids |-> << >>, todo |-> << >>, acc |-> NoAcc,
     out |-> NoneV, status |-> "", pre |-> EmptyMap, answered |-> {},
     lgf_calls |-> 0,
     fetched |-> {}, rewrote |-> {}, skipped |-> {}, tier |-> ""]

IdleForm == [pc |-> "idle", log |-> << >>, result |-> NoneV]

---------------------------------------------------------------------------
(* Command line: parse_season_types *)

\* values of --season-types, as the list of comma-separated parts after
\* strip() and the removal of empty parts (<<>> is the empty string)
SeasonTypeArgs ==
    { <<>>, <<"rs">>, <<"Regular Season", "Playoffs">>, <<"po", "rs", "PO">> }

\* lines 593-601: the alias table applied to p.lower()
NormalizeSeasonType(p) ==
    CASE p \in {"rs", "RS", "regular", "Regular Season"} -> "Regular Season"
      [] p \in {"ps", "pre", "Pre Season"} -> "Pre Season"
      [] p \in {"po", "PO", "playoff", "playoffs", "Playoffs"} -> "Playoffs"
      [] OTHER -> p

RECURSIVE Dedupe(_, _)
\* dict.fromkeys: the first occurrence of each value, in order
Dedupe(seq, seen) ==
    IF seq = <<>> THEN <<>>
    ELSE IF Head(seq) \in seen THEN Dedupe(Tail(seq), seen)
    ELSE <<Head(seq)>> \o Dedupe(Tail(seq), seen \cup {Head(seq)})

ParseSeasonTypes(parts) ==
    IF parts = <<>> THEN <<"Regular Season">>
    ELSE Dedupe([i \in 1..Len(parts) |-> NormalizeSeasonType(parts[i])], {})

---------------------------------------------------------------------------
(* Team resolution: get_team_id (sottomediapartita.py) and the lookup of
   get_team_game_ids (teamdefensestatsperrole.py).  A string is the
   sequence of its characters. *)

LowerChars == <<"a", "b", "c", "d", "e", "f", "g", "h", "i", "j", "k", "l", "m",
                "n", "o", "p", "q", "r", "s", "t", "u", "v", "w", "x", "y", "z">>
UpperChars == <<"A", "B", "C", "D", "E", "F", "G", "H", "I", "J", "K", "L", "M",
                "N", "O", "P", "Q", "R", "S", "T", "U", "V", "W", "X", "Y", "Z">>
Digits == <<"0", "1", "2", "3", "4", "5", "6", "7", "8", "9">>

\* str.lower() and str.upper()
StrLower(s) ==
    [i \in 1..Len(s) |->
        IF \E k \in 1..Len(UpperChars) : UpperChars[k] = s[i]
        THEN LowerChars[CHOOSE k \in 1..Len(UpperChars) : UpperChars[k] = s[i]]
        ELSE s[i]]

StrUpper(s) ==
    [i \in 1..Len(s) |->
        IF \E k \in 1..Len(LowerChars) : LowerChars[k] = s[i]
        THEN UpperChars[CHOOSE k \in 1..Len(LowerChars) : LowerChars[k] = s[i]]
        ELSE s[i]]

\* str.strip(): leading and trailing blanks removed
Strip(s) ==
    LET inked == {i \in 1..Len(s) : s[i] # " "}
    IN IF inked = {} THEN <<>>
       ELSE LET first == CHOOSE i \in inked : \A j \in inked : i <= j
                last == CHOOSE i \in inked : \A j \in inked : j <= i
            IN SubSeq(s, first, last)

\* Python's `s in t` on strings
IsSubstr(s, t) ==
    \E i \in 0..(Len(t) - Len(s)) : SubSeq(t, i + 1, i + Len(s)) = s

\* teams.get_teams(): the static table, in the order of TeamAbbrs
FullNameOf(abbr) ==
    CASE abbr = "ATL" -> <<"A", "t", "l", "a", "n", "t", "a", " ", "H", "a", "w", "k", "s">>
      [] abbr = "BOS" -> <<"B", "o", "s", "t", "o", "n", " ", "C", "e", "l", "t", "i", "c", "s">>
      [] abbr = "CHI" -> <<"C", "h", "i", "c", "a", "g", "o", " ", "B", "u", "l", "l", "s">>
      [] abbr = "DAL" -> <<"D", "a", "l", "l", "a", "s", " ", "M", "a", "v", "e", "r", "i", "c", "k", "s">>

AbbrChars(abbr) ==
    CASE abbr = "ATL" -> <<"A", "T", "L">>
      [] abbr = "BOS" -> <<"B", "O", "S">>
      [] abbr = "CHI" -> <<"C", "H", "I">>
      [] abbr = "DAL" -> <<"D", "A", "L">>

TeamIdOf(abbr) ==
    CASE abbr = "ATL" -> 1610612737
      [] abbr = "BOS" -> 1610612738
      [] abbr = "CHI" -> 1610612741
      [] abbr = "DAL" -> 1610612742

TeamIdChars(abbr) ==
    <<"1", "6", "1", "0", "6", "1", "2", "7">>
        \o (CASE abbr = "ATL" -> <<"3", "7">>
              [] abbr = "BOS" -> <<"3", "8">>
              [] abbr = "CHI" -> <<"4", "1">>
              [] abbr = "DAL" -> <<"4", "2">>)

\* int(team_name): the value of a string of digits, ValueError otherwise
IsNumeric(s) ==
    /\ Strip(s) # <<>>
    /\ \A i \in 1..Len(Strip(s)) : \E k \in 1..10 : Digits[k] = Strip(s)[i]

RECURSIVE ParseDigits(_)
ParseDigits(s) ==
    IF s = <<>> THEN 0
    ELSE 10 * ParseDigits(SubSeq(s, 1, Len(s) - 1))
         + (CHOOSE k \in 1..10 : Digits[k] = s[Len(s)]) - 1

NotFound == [tag |-> "raised"]        \* ValueError
Found(abbr) == [tag |-> "team", abbr |-> abbr, id |-> TeamIdOf(abbr)]

\* position of a team in the static table
TeamIndex(abbr) == CHOOSE i \in 1..NumTeams : TeamAbbrs[i] = abbr

\* get_team_id, lines 16-45
GetTeamId(team_name) ==
    LET normalized == StrLower(Strip(team_name))
        matches == {t \in Teams : IsSubstr(normalized, StrLower(FullNameOf(t)))}
    IN IF team_name = <<>> \/ normalized = <<>> THEN NotFound
       ELSE IF \E t \in Teams : StrLower(FullNameOf(t)) = normalized
       THEN Found(CHOOSE t \in Teams : StrLower(FullNameOf(t)) = normalized)
       ELSE IF \E t \in Teams : StrLower(AbbrChars(t)) = normalized
       THEN Found(CHOOSE t \in Teams : StrLower(AbbrChars(t)) = normalized)
       ELSE IF Cardinality(matches) = 1
       THEN Found(CHOOSE t \in matches : TRUE)
       ELSE IF IsNumeric(team_name) /\ Len(Strip(team_name)) <= 10
               /\ \E t \in Teams : TeamIdOf(t) = ParseDigits(Strip(team_name))
       THEN Found(CHOOSE t \in Teams : TeamIdOf(t) = ParseDigits(Strip(team_name)))
       ELSE NotFound

\* get_team_game_ids, lines 232-251: the team of the identifier it is given
ResolveTeam(team_abbr) ==
    LET matches == {t \in Teams : IsSubstr(StrLower(team_abbr), StrLower(FullNameOf(t)))}
    IN IF \E t \in Teams : AbbrChars(t) = StrUpper(team_abbr)
       THEN Found(CHOOSE t \in Teams : AbbrChars(t) = StrUpper(team_abbr))
       ELSE IF matches # {}
       THEN Found(CHOOSE t \in matches : \A u \in matches : TeamIndex(t) <= TeamIndex(u))
       ELSE NotFound

\* Identifiers a caller passes: pieces of the full names, abbreviations in
\* either case, numeric ids, the empty string and unknown words.
Pieces(s) == {SubSeq(s, i, j) : i \in 1..Len(s), j \in 1..Len(s)}

Identifiers ==
    UNION {Pieces(FullNameOf(t)) \cup Pieces(StrLower(FullNameOf(t)))
           \cup {AbbrChars(t), StrLower(AbbrChars(t)), TeamIdChars(t)} : t \in Teams}
    \cup {<<>>, <<" ">>, <<"z", "z">>, <<"9", "9">>, <<"H", "a", "w", "k", "s", " ">>}

\* the characters of the texts used as team parameter and as cache key
CharsOf(s) ==
    CASE s \in Teams -> AbbrChars(s)
      [] s = "" -> <<>>
      [] s = "zzz" -> <<"z", "z", "z">>
      [] s = "ZZZ" -> <<"Z", "Z", "Z">>
      [] s = "Hawks" -> <<"H", "a", "w", "k", "s">>
      [] s = "HAWKS" -> <<"H", "A", "W", "K", "S">>

\* (target_team_abbr or "").upper(), lines 332 and 562
UpperName(s) ==
    CHOOSE n \in Teams \cup {"", "zzz", "ZZZ", "Hawks", "HAWKS"} :
        CharsOf(n) = StrUpper(CharsOf(s))

\* get_team_game_ids finds a team for the key (lines 232-251)
Resolvable(team) == team # "" /\ ResolveTeam(CharsOf(team)) # NotFound


---------------------------------------------------------------------------
(* Threads.  In the server: request handlers 1..NumWorkers, and the
   warm-build thread started by handler w, NumWorkers + w.  Thread 1 is also
   the process of the sequential runs (the command line, and the library
   calls of the server taken alone). *)

Workers == 1..NumWorkers
Runner(w) == NumWorkers + w
Runners == {Runner(w) : w \in Workers}
Threads == Workers \cup Runners
Main == 1

WarmPcs == {"sw_check", "sw_lock", "sw_spawn"}

\* kind: "req" a /team-defense request, "run" a warm build, "get" a call of
\* get_team_defense_from_cache, "cli" main() for one team
NewThread(kind, pc) ==
    [kind |-> kind, pc |-> pc, team |-> "", season |-> "", ex |-> FALSE,
     role |-> DefaultRoleMode, st |-> DefaultSeasonTypes,
     refresh |-> FALSE, debug |-> FALSE,
     loaded |-> NoneV, out |-> NoneV, ret |-> NoneV, results |-> EmptyMap,
     todo |-> <<>>, failed |-> {}, status |-> "", tier |-> "", warm |-> "",
     overlap |-> {}, inflight |-> {}, ended |-> {}, prior |-> "",
     pre |-> EmptyMap]

Key(t) == <<th[t].season, th[t].ex>>

AllName(t) ==
    AllCacheName(th[t].season, th[t].ex, th[t].role, SeasonTypesKey(th[t].st))

TeamName(t) ==
    TeamCacheName(th[t].team, th[t].season, th[t].ex, th[t].role,
                  SeasonTypesKey(th[t].st))

Ready(t) ==
    IsAllTeamCacheReady(cache, th[t].season, th[t].ex, DefaultRoleMode,
                        DefaultSeasonTypes)

\* a build of handler w that was scheduled and has not yet released its key
InFlight(w) ==
    th[w].pc = "sw_spawn" \/ th[Runner(w)].pc \notin {"unborn", "done"}

\* the all-teams loop moves on to the next team, or to the final save
NextTeam(rec) ==
    LET rest == Tail(rec.todo)
    IN IF rest = <<>>
       THEN [rec EXCEPT !.todo = rest, !.team = "", !.pc = "wl_save",
                        !.loaded = NoneV, !.out = NoneV]
       ELSE [rec EXCEPT !.todo = rest, !.team = Head(rest), !.pc = "cp_team",
                        !.loaded = NoneV, !.out = NoneV]

\* compute_defense_by_position_boxscore_per_game (or the bulk lookup before
\* it) returns r in thread t: the handler goes on to
\* _schedule_all_cache_build, the all-teams loop stores r in
\* all_results["teams"], a single call is over
Returned(t, r, tier) ==
    IF th[t].kind = "req"
    THEN LET inside == {v \in Workers \ {t} :
                            th[v].pc \in WarmPcs /\ Key(v) = Key(t)}
         IN [v \in Threads |->
                IF v = t
                THEN [th[t] EXCEPT !.ret = r, !.status = "ok", !.tier = tier,
                                   !.pc = "sw_check", !.overlap = inside,
                                   !.loaded = NoneV, !.out = NoneV]
                ELSE IF v \in inside
                THEN [th[v] EXCEPT !.overlap = @ \cup {t}]
                ELSE th[v]]
    ELSE IF th[t].kind = "run"
    THEN [th EXCEPT ![t] =
            NextTeam([th[t] EXCEPT !.results = MapPut(@, th[t].team, r)])]
    ELSE [th EXCEPT ![t].ret = r, ![t].status = "ok", ![t].tier = tier,
                    ![t].pc = "done", ![t].loaded = NoneV, ![t].out = NoneV]

\* the handler schedules the warm build also after an error
RaisedStillWarms(t) ==
    IF th[t].kind = "run"
    THEN [th EXCEPT ![t] =
            NextTeam([th[t] EXCEPT !.failed = @ \cup {th[t].team}])]
    ELSE [th EXCEPT ![t].status = "error", ![t].pc = "sw_check"]

\* a failure of one team ends the all-teams loop
RaisedAbortsPass(t) ==
    IF th[t].kind = "run"
    THEN [th EXCEPT ![t].status = "raised", ![t].pc = "fin"]
    ELSE [th EXCEPT ![t].status = "error", ![t].pc = "done"]

\* the computation raises in thread t: a single call fails (the handler
\* answers with an error and schedules nothing), the all-teams loop skips
\* the team
Raised(t) ==
    IF th[t].kind = "run"
    THEN [th EXCEPT ![t] =
            NextTeam([th[t] EXCEPT !.failed = @ \cup {th[t].team}])]
    ELSE [th EXCEPT ![t].status = "error", ![t].pc = "done"]

\* The cache directory at start: empty, or holding a bulk file left by an
\* earlier run that cannot be parsed or has no "teams" key.
InitialCaches ==
    LET name == AllCacheName("2025-26", TRUE, DefaultRoleMode,
                             SeasonTypesKey(DefaultSeasonTypes))
    IN { EmptyMap,
         MapPut(EmptyMap, name, Corrupt),
         MapPut(EmptyMap, name,
                [NewAllEntry("2025-26", TRUE, DefaultRoleMode,
                             DefaultSeasonTypes) EXCEPT !.has_teams = FALSE]) }

Init ==
    /\ cache \in InitialCaches
    /\ building = {}
    /\ th = [t \in Threads |-> IF t \in Workers THEN NewThread("req", "idle")
                               ELSE NewThread("run", "unborn")]
    /\ fetches = {}
    /\ stored = {}
    /\ ops = 0
    /\ scan = IdleScan(0)
    /\ form = IdleForm
    /\ adv = [pc |-> "idle"]
    /\ lookup = [pc |-> "idle"]
    /\ retry = [pc |-> "idle"]

\* server.team_defense, lines 154-168
Request(w, team, season, exclude_dnp) ==
    /\ th[w].pc = "idle"
    /\ th' = [th EXCEPT ![w].team = team, ![w].season = season,
                        ![w].ex = exclude_dnp, ![w].pc = "gt_all"]
    /\ UNCHANGED <<cache, building, fetches, stored, ops, scan, form, adv, lookup, retry>>

\* get_team_defense_from_cache, lines 566-571
GtAll(t) ==
    /\ th[t].pc = "gt_all"
    /\ LET all_cache == LoadCache(cache, AllName(t))
       IN IF /\ Truthy(all_cache) /\ HasTeamsMap(all_cache)
             /\ th[t].team \in DOMAIN all_cache.teams
             /\ Truthy(all_cache.teams[th[t].team])
          THEN th' = Returned(t, all_cache.teams[th[t].team], "bulk")
          ELSE th' = [th EXCEPT ![t].pc = "cp_all"]
    /\ UNCHANGED <<cache, building, fetches, stored, ops, scan, form, adv, lookup, retry>>

\* compute_defense_by_position_boxscore_per_game, lines 338-345
\* (use_all_cache=True)
CpAll(t) ==
    /\ th[t].pc = "cp_all"
    /\ LET all_cached == LoadCache(cache, AllName(t))
       IN IF Truthy(all_cached) /\ th[t].team \in DOMAIN TeamsOrEmpty(all_cached)
          THEN th' = Returned(t, TeamsOrEmpty(all_cached)[th[t].team], "bulk")
          ELSE th' = [th EXCEPT ![t].pc = "cp_team"]
    /\ UNCHANGED <<cache, building, fetches, stored, ops, scan, form, adv, lookup, retry>>

\* lines 347-490 without the per-team lookup of line 349
CpTeamAlwaysScan(t) ==
    /\ th[t].pc = "cp_team"
    /\ fetches' = fetches \cup {<<t, th[t].team>>}
    /\ \/ \E n \in 0..MaxGames :
             th' = [th EXCEPT ![t].pc = "cp_save",
                      ![t].out = ComputeAggregate(th[t].team, th[t].season,
                                     th[t].ex, th[t].role, th[t].st, n)]
       \/ th' = Raised(t)
    /\ UNCHANGED <<cache, building, stored, ops, scan, form, adv, lookup, retry>>

\* lines 347-490: the per-team entry, else the scan of the team's games,
\* which get_team_game_ids refuses for a team it cannot find (line 251)
CpTeam(t) ==
    /\ th[t].pc = "cp_team"
    /\ LET cached == LoadCache(cache, TeamName(t))
       IN IF Truthy(cached) /\ ~th[t].debug /\ ~th[t].refresh
          THEN /\ th' = Returned(t, cached, "team")
               /\ UNCHANGED fetches
          ELSE IF ~Resolvable(th[t].team)
          THEN /\ th' = Raised(t)
               /\ UNCHANGED fetches
          ELSE /\ fetches' = fetches \cup {<<t, th[t].team>>}
               /\ \/ \E n \in 0..MaxGames :
                        th' = [th EXCEPT ![t].pc = "cp_save",
                                 ![t].out = ComputeAggregate(th[t].team,
                                     th[t].season, th[t].ex, th[t].role,
                                     th[t].st, n)]
                  \/ th' = Raised(t)
    /\ UNCHANGED <<cache, building, stored, ops, scan, form, adv, lookup, retry>>

\* line 492
CpSave(t) ==
    /\ th[t].pc = "cp_save"
    /\ cache' = SaveCache(cache, TeamName(t), th[t].out)
    /\ th' = [th EXCEPT ![t].pc = "up_load"]
    /\ UNCHANGED <<building, fetches, stored, ops, scan, form, adv, lookup, retry>>

\* _update_all_cache, line 86: the read of the bulk entry
UpLoad(t) ==
    /\ th[t].pc = "up_load"
    /\ th' = [th EXCEPT ![t].pc = "up_save",
                        ![t].loaded = LoadCache(cache, AllName(t))]
    /\ UNCHANGED <<cache, building, fetches, stored, ops, scan, form, adv, lookup, retry>>

\* _update_all_cache, lines 93-96: the write of the merged bulk entry
UpSave(t) ==
    /\ th[t].pc = "up_save"
    /\ cache' = SaveCache(cache, AllName(t),
                    MergeTeam(th[t].loaded, th[t].season, th[t].ex,
                              th[t].role, th[t].st, th[t].out))
    /\ stored' = stored \cup {<<AllName(t), th[t].team>>}
    /\ th' = Returned(t, th[t].out, "computed")
    /\ UNCHANGED <<building, fetches, ops, scan, form, adv, lookup, retry>>

\* _schedule_all_cache_build without the early return of lines 23-24
SwCheckNoShortcut(w) ==
    /\ th[w].pc = "sw_check"
    /\ th' = [th EXCEPT ![w].pc = "sw_lock"]
    /\ UNCHANGED <<cache, building, fetches, stored, ops, scan, form, adv, lookup, retry>>

\* _schedule_all_cache_build, lines 23-24
SwCheck(w) ==
    /\ th[w].pc = "sw_check"
    /\ IF Ready(w)
       THEN th' = [th EXCEPT ![w].pc = "done", ![w].warm = "ready1"]
       ELSE th' = [th EXCEPT ![w].pc = "sw_lock"]
    /\ UNCHANGED <<cache, building, fetches, stored, ops, scan, form, adv, lookup, retry>>

\* lines 26-32 with the test of line 30 left out
SwLockNoDedup(w) ==
    /\ th[w].pc = "sw_lock"
    /\ IF Ready(w)
       THEN /\ th' = [th EXCEPT ![w].pc = "done", ![w].warm = "ready2"]
            /\ UNCHANGED building
       ELSE /\ building' = building \cup {Key(w)}
            /\ th' = [th EXCEPT ![w].pc = "sw_spawn"]
    /\ UNCHANGED <<cache, fetches, stored, ops, scan, form, adv, lookup, retry>>

\* lines 26-32, under _cache_build_lock
SwLock(w) ==
    /\ th[w].pc = "sw_lock"
    /\ LET busy == {v \in Workers \ {w} : InFlight(v) /\ Key(v) = Key(w)}
           over == {v \in Workers \ {w} :
                        /\ th[v].warm = "started" /\ Key(v) = Key(w)
                        /\ th[Runner(v)].pc = "done"}
       IN IF Ready(w)
          THEN /\ th' = [th EXCEPT ![w].pc = "done", ![w].warm = "ready2",
                                   ![w].inflight = busy, ![w].ended = over]
               /\ UNCHANGED building
          ELSE IF Key(w) \in building
          THEN /\ th' = [th EXCEPT ![w].pc = "done", ![w].warm = "dup",
                                   ![w].inflight = busy, ![w].ended = over]
               /\ UNCHANGED building
          ELSE /\ building' = building \cup {Key(w)}
               /\ th' = [th EXCEPT ![w].pc = "sw_spawn",
                                   ![w].inflight = busy, ![w].ended = over]
    /\ UNCHANGED <<cache, fetches, stored, ops, scan, form, adv, lookup, retry>>

\* line 41: threading.Thread(target=_runner).start()
SwSpawn(w) ==
    /\ th[w].pc = "sw_spawn"
    /\ th' = [th EXCEPT ![w].pc = "done", ![w].warm = "started",
                ![Runner(w)] = [NewThread("run", "wl_load") EXCEPT
                                  !.season = th[w].season, !.ex = th[w].ex]]
    /\ UNCHANGED <<cache, building, fetches, stored, ops, scan, form, adv, lookup, retry>>

\* compute_all_teams_defense_by_position_boxscore_per_game, lines 499-516
WlLoad(t) ==
    /\ th[t].pc = "wl_load"
    /\ LET cached == LoadCache(cache, AllName(t))
           was == IF ~Truthy(cached) THEN "absent"
                  ELSE IF IsAllTeamCacheReady(cache, th[t].season, th[t].ex,
                                              th[t].role, th[t].st)
                  THEN "ready" ELSE "partial"
       IN IF Truthy(cached) /\ ~th[t].refresh
          THEN th' = [th EXCEPT ![t].pc = "fin",
                                ![t].status = "returned", ![t].tier = "bulk",
                                ![t].ret = cached, ![t].prior = was]
          ELSE th' = [th EXCEPT ![t].pc = "cp_team", ![t].prior = was,
                                ![t].todo = SortedTeams,
                                ![t].team = Head(SortedTeams)]
    /\ UNCHANGED <<cache, building, fetches, stored, ops, scan, form, adv, lookup, retry>>

\* line 534: the final write of all_results
WlSave(t) ==
    /\ th[t].pc = "wl_save"
    /\ LET all_results == [NewAllEntry(th[t].season, th[t].ex, th[t].role,
                                       th[t].st)
                              EXCEPT !.teams = th[t].results]
       IN /\ cache' = SaveCache(cache, AllName(t), all_results)
          /\ th' = [th EXCEPT ![t].pc = "fin",
                              ![t].status = "returned",
                              ![t].tier = "computed",
                              ![t].ret = all_results]
    /\ stored' = stored \cup {<<AllName(t), tm>> : tm \in DOMAIN th[t].results}
    /\ UNCHANGED <<building, fetches, ops, scan, form, adv, lookup, retry>>

\* warm_all_team_caches raises outside the per-team handler (lines 499-507
\* or the final save_cache of line 534): control goes to _runner's finally
WarmRaise(r) ==
    /\ th[r].kind = "run"
    /\ th[r].pc \in {"wl_load", "wl_save"}
    /\ th' = [th EXCEPT ![r].pc = "fin", ![r].status = "raised"]
    /\ UNCHANGED <<cache, building, fetches, stored, ops, scan, form, adv, lookup, retry>>

\* the key is released only after a normal return (no finally)
FinNoFinally(r) ==
    /\ th[r].pc = "fin"
    /\ building' = IF th[r].status = "returned" THEN building \ {Key(r)}
                   ELSE building
    /\ th' = [th EXCEPT ![r].pc = "done"]
    /\ UNCHANGED <<cache, fetches, stored, ops, scan, form, adv, lookup, retry>>

\* _runner's finally, lines 37-39
Fin(r) ==
    /\ th[r].pc = "fin"
    /\ building' = building \ {Key(r)}
    /\ th' = [th EXCEPT ![r].pc = "done"]
    /\ UNCHANGED <<cache, fetches, stored, ops, scan, form, adv, lookup, retry>>

Next ==
    \/ \E w \in Workers, team \in Teams, season \in Seasons, ex \in BOOLEAN :
          Request(w, team, season, ex)
    \/ \E w \in Workers : GtAll(w) \/ CpAll(w) \/ SwCheck(w) \/ SwLock(w) \/ SwSpawn(w)
    \/ \E t \in Threads : CpTeam(t) \/ CpSave(t) \/ UpLoad(t) \/ UpSave(t)
    \/ \E r \in Runners : WlLoad(r) \/ WlSave(r) \/ WarmRaise(r) \/ Fin(r)

Spec == Init /\ [][Next]_vars

\* the steps of thread t once its request has arrived
ThreadStep(t) ==
    \/ (t \in Workers /\ (GtAll(t) \/ CpAll(t) \/ SwCheck(t) \/ SwLock(t) \/ SwSpawn(t)))
    \/ CpTeam(t) \/ CpSave(t) \/ UpLoad(t) \/ UpSave(t)
    \/ (t \in Runners /\ (WlLoad(t) \/ WlSave(t) \/ WarmRaise(t) \/ Fin(t)))

\* every started thread keeps being scheduled
FairSpec == Spec /\ \A t \in Threads : WF_vars(ThreadStep(t))

---------------------------------------------------------------------------
(* Sequential runs: one process at a time works on the cache directory.
   Thread Main runs main() of teamdefensestatsperrole.py for one team, or
   makes the calls of the server's handler one at a time. *)

\* main(), lines 616-659: python teamdefensestatsperrole.py --team ...
CliTeam(team, season, exclude_dnp, role_mode, arg, refresh_games, debug) ==
    /\ th[Main].pc = "idle" /\ ops < MaxOps
    /\ th' = [th EXCEPT ![Main] =
                [NewThread("cli", "cp_all") EXCEPT
                    !.team = team, !.season = season, !.ex = exclude_dnp,
                    !.role = role_mode, !.st = ParseSeasonTypes(arg),
                    !.refresh = refresh_games, !.debug = debug,
                    !.pre = cache]]
    /\ UNCHANGED <<cache, building, fetches, stored, ops, scan, form, adv, lookup, retry>>

\* server.team_defense, lines 163-168: the call taken alone
GetTeam(team, season, exclude_dnp) ==
    /\ th[Main].pc = "idle" /\ ops < MaxOps
    /\ th' = [th EXCEPT ![Main] =
                [NewThread("get", "gt_all") EXCEPT
                    !.team = team, !.season = season, !.ex = exclude_dnp,
                    !.pre = cache]]
    /\ UNCHANGED <<cache, building, fetches, stored, ops, scan, form, adv, lookup, retry>>

\* the run or call is over; the next one starts with no provider history
Exit ==
    /\ th[Main].pc = "done"
    /\ th' = [th EXCEPT ![Main] = NewThread("req", "idle")]
    /\ ops' = ops + 1
    /\ fetches' = {}
    /\ UNCHANGED <<cache, building, stored, scan, form, adv, lookup, retry>>

SeqNext ==
    \/ \E team \in Teams, season \in Seasons, ex \in BOOLEAN,
          role_mode \in RoleModes, arg \in SeasonTypeArgs,
          refresh_games \in BOOLEAN, debug \in BOOLEAN :
            CliTeam(team, season, ex, role_mode, arg, refresh_games, debug)
    \/ \E team \in Teams, season \in Seasons, ex \in BOOLEAN :
            GetTeam(team, season, ex)
    \/ GtAll(Main) \/ CpAll(Main) \/ CpTeam(Main) \/ CpSave(Main)
    \/ UpLoad(Main) \/ UpSave(Main)
    \/ Exit

SpecSeq == Init /\ [][SeqNext]_vars

---------------------------------------------------------------------------
(* One aggregation at a time: the cache lookups, game discovery, then one
   boxscore per step, then the writes of the result. *)

\* compute_defense_by_position_boxscore_per_game, lines 322-355: the bulk
\* entry when use_all_cache is set, then the per-team entry, else the scan
ScanStart(team, season, exclude_dnp, role_mode, season_types, refresh_games, debug, use_all_cache) ==
    /\ scan.pc = "idle" /\ scan.count < MaxScans
    /\ LET season_types_key == SeasonTypesKey(season_types)
           all_cached == IF use_all_cache
                         THEN LoadAllCache(cache, season, exclude_dnp,
                                           role_mode, season_types_key)
                         ELSE NoneV
           cached == LoadCache(cache, TeamCacheName(team, season, exclude_dnp,
                                          role_mode, season_types_key))
           call == [IdleScan(scan.count) EXCEPT
                       !.team = team, !.season = season,
                       !.ex = exclude_dnp, !.role = role_mode,
                       !.st = season_types, !.refresh = refresh_games,
                       !.debug = debug, !.pre = cache]
       IN IF Truthy(all_cached) /\ team \in DOMAIN TeamsOrEmpty(all_cached)
          THEN scan' = [call EXCEPT !.pc = "done", !.tier = "bulk",
                                    !.out = TeamsOrEmpty(all_cached)[team]]
          ELSE IF Truthy(cached) /\ ~debug /\ ~refresh_games
          THEN scan' = [call EXCEPT !.pc = "done", !.tier = "team",
                                    !.out = cached]
          ELSE scan' = [call EXCEPT !.pc = "resolve"]
    /\ UNCHANGED <<cache, building, th, fetches, stored, ops, form, adv, lookup, retry>>

\* line 357: get_team_game_ids, with the answers of the provider
ScanResolve ==
    /\ scan.pc = "resolve"
    /\ \E tgl \in [1..Len(scan.st) -> UNION {TglOutcomes(t) : t \in SetOf(scan.st)}],
          lgf \in LgfOutcomes :
          /\ \A i \in 1..Len(scan.st) : tgl[i] \in TglOutcomes(scan.st[i])
          /\ LET r == GetTeamGameIds(cache, scan.team, scan.season, scan.st,
                                     scan.refresh, tgl, lgf)
             IN /\ cache' = r.cache
                /\ scan' = [scan EXCEPT
                       !.pc = "games", !.ids = r.ids, !.todo = r.ids,
                       !.status = "ok",
                       !.answered =
                           UNION {TglFound(tgl[i]) : i \in 1..Len(scan.st)}
                             \cup (IF lgf.ok THEN lgf.ids ELSE {}),
                       !.lgf_calls = 1]
    /\ UNCHANGED <<building, th, fetches, stored, ops, form, adv, lookup, retry>>

\* lines 361-446 with exhausted retries ending the aggregation
ScanGameAbort ==
    /\ scan.pc = "games" /\ scan.todo # << >>
    /\ LET gi == Head(scan.todo)
           box_cached == IF scan.debug THEN NoneV
                         ELSE LoadCache(cache, BoxCacheName(gi))
       IN IF BoxTruthy(box_cached)
          THEN /\ scan' = [scan EXCEPT
                      !.todo = Tail(@),
                      !.acc = AddGame(@, PerGameBucket(box_cached.rows,
                                  scan.team, scan.ex, scan.role))]
               /\ UNCHANGED cache
          ELSE \E ok \in BOOLEAN :
                  IF ~ok
                  THEN /\ scan' = [scan EXCEPT !.pc = "done",
                                      !.status = "error",
                                      !.fetched = @ \cup {gi},
                                      !.skipped = @ \cup {gi}]
                       /\ UNCHANGED cache
                  ELSE /\ cache' = SaveCache(cache, BoxCacheName(gi),
                                             BoxEntry(BoxRows(gi)))
                       /\ scan' = [scan EXCEPT
                              !.todo = Tail(@),
                              !.fetched = @ \cup {gi},
                              !.rewrote = @ \cup {gi},
                              !.acc = AddGame(@, PerGameBucket(BoxRows(gi),
                                          scan.team, scan.ex, scan.role))]
    /\ UNCHANGED <<building, th, fetches, stored, ops, form, adv, lookup, retry>>

\* lines 361-446: one game of the loop; ok is FALSE when the three attempts
\* of lines 374-382 all raised
ScanGame ==
    /\ scan.pc = "games" /\ scan.todo # << >>
    /\ LET gi == Head(scan.todo)
           box_cached == IF scan.debug THEN NoneV
                         ELSE LoadCache(cache, BoxCacheName(gi))
       IN IF BoxTruthy(box_cached)
          THEN /\ scan' = [scan EXCEPT
                      !.todo = Tail(@),
                      !.acc = AddGame(@, PerGameBucket(box_cached.rows,
                                  scan.team, scan.ex, scan.role))]
               /\ UNCHANGED cache
          ELSE \E ok \in BOOLEAN :
                  IF ~ok
                  THEN /\ scan' = [scan EXCEPT !.todo = Tail(@),
                                      !.fetched = @ \cup {gi},
                                      !.skipped = @ \cup {gi}]
                       /\ UNCHANGED cache
                  ELSE /\ cache' = SaveCache(cache, BoxCacheName(gi),
                                             BoxEntry(BoxRows(gi)))
                       /\ scan' = [scan EXCEPT
                              !.todo = Tail(@),
                              !.fetched = @ \cup {gi},
                              !.rewrote = @ \cup {gi},
                              !.acc = AddGame(@, PerGameBucket(BoxRows(gi),
                                          scan.team, scan.ex, scan.role))]
    /\ UNCHANGED <<building, th, fetches, stored, ops, form, adv, lookup, retry>>

\* lines 448-494: the loop is over, the result dict is built, saved as the
\* per-team entry and merged into the bulk entry
ScanFinish ==
    /\ scan.pc = "games" /\ scan.todo = << >>
    /\ LET out == ScanAggregate(scan.team, scan.season, scan.ex,
                                scan.role, scan.st, scan.acc)
           cache_name == TeamCacheName(scan.team, scan.season, scan.ex,
                                       scan.role, SeasonTypesKey(scan.st))
       IN /\ scan' = [scan EXCEPT !.pc = "done", !.tier = "computed",
                                  !.out = out]
          /\ cache' = UpdateAllCache(SaveCache(cache, cache_name, out),
                                     scan.season, scan.ex, scan.role,
                                     scan.st, out)
    /\ UNCHANGED <<building, th, fetches, stored, ops, form, adv, lookup, retry>>

\* the aggregation is over
ScanExit ==
    /\ scan.pc = "done"
    /\ scan' = IdleScan(scan.count + 1)
    /\ UNCHANGED <<cache, building, th, fetches, stored, ops, form, adv, lookup, retry>>

ScanNext ==
    \/ \E team \in Teams, season \in Seasons, ex \in BOOLEAN,
          role_mode \in ScanRoleModes, season_types \in ScanSeasonTypes,
          refresh_games \in BOOLEAN, debug \in BOOLEAN,
          use_all_cache \in BOOLEAN :
            ScanStart(team, season, ex, role_mode, season_types,
                      refresh_games, debug, use_all_cache)
    \/ ScanResolve
    \/ ScanGame
    \/ ScanFinish
    \/ ScanExit

\* the aggregations start on an empty cache directory
ScanInit == Init /\ cache = EmptyMap

SpecScan == ScanInit /\ [][ScanNext]_vars

---------------------------------------------------------------------------
(* sottomediapartita.py: compute_last5_stats on one stat column *)

\* line 100: rolling(5, ...)
Window == 5

\* a cell of the stat column: a number, or NullStat for a missing or
\* unparsable one (NaN after pd.to_numeric(..., errors='coerce'), lines 89-91)
FormValues == {NullStat} \cup (0..MaxStat)

RECURSIVE SortByDate(_)
\* line 83: df.sort_values('GAME_DATE')
SortByDate(df) ==
    IF df = << >> THEN << >>
    ELSE LET k == CHOOSE i \in 1..Len(df) :
                      \A j \in 1..Len(df) : df[i].date <= df[j].date
         IN <<df[k]>> \o SortByDate([i \in 1..(Len(df) - 1) |->
                                        IF i < k THEN df[i] ELSE df[i + 1]])

RECURSIVE SumVals(_, _)
\* the sum of the column over the positions in S
SumVals(col, S) ==
    IF S = {} THEN 0
    ELSE LET i == CHOOSE j \in S : TRUE IN col[i] + SumVals(col, S \ {i})

\* line 100, shift().rolling(5, min_periods=1): the positions of the numbers
\* among the five cells before position i
RollingCells(col, i) ==
    {j \in 1..(i - 1) : j >= i - Window /\ col[j] # NullStat}

\* the window without the shift: the five cells ending at position i
RollingCellsNoShift(col, i) ==
    {j \in 1..i : j > i - Window /\ col[j] # NullStat}

\* round(x, 2) of num / den, in hundredths
Round2(num, den) == (2 * 100 * num + den) \div (2 * den)

\* lines 105-116 on the last row of the sorted frame
LastGameStats(col, cells) ==
    LET n == Len(col)
        value_null == col[n] = NullStat
        avg_null == cells = {}
        value_num == IF value_null THEN 0 ELSE col[n]
        total == SumVals(col, cells)
        count == Cardinality(cells)
    IN [tag |-> "stats",
        value |-> 100 * value_num,
        last5_avg |-> IF avg_null THEN 0 ELSE Round2(total, count),
        under_avg |-> IF avg_null THEN FALSE ELSE value_num * count < total]

\* compute_last5_stats with the current game inside its own window
ComputeLast5StatsNoShift(df) ==
    LET sorted == SortByDate(df)
        col == [i \in 1..Len(sorted) |-> sorted[i].val]
    IN IF df = << >> THEN [tag |-> "empty"]
       ELSE LastGameStats(col, RollingCellsNoShift(col, Len(col)))

\* lines 80-118, for one of the stats of line 85
ComputeLast5Stats(df) ==
    LET sorted == SortByDate(df)
        col == [i \in 1..Len(sorted) |-> sorted[i].val]
    IN IF df = << >> THEN [tag |-> "empty"]
       ELSE LastGameStats(col, RollingCells(col, Len(col)))

\* the game logs: one row per date, newest first as the provider lists them
\* or oldest first
GameLog(n, vals, newest_first) ==
    [i \in 1..n |-> [date |-> IF newest_first THEN n + 1 - i ELSE i,
                     val |-> vals[i]]]

\* compute_last5_stats(df) for a game log df of the provider
FormCall ==
    /\ form.pc = "idle"
    /\ \E n \in 0..MaxLog, newest_first \in BOOLEAN :
         \E vals \in [1..n -> FormValues] :
            LET df == GameLog(n, vals, newest_first)
            IN form' = [pc |-> "done", log |-> df,
                        result |-> ComputeLast5Stats(df)]
    /\ UNCHANGED <<cache, building, th, fetches, stored, ops, scan, adv, lookup, retry>>

FormExit ==
    /\ form.pc = "done"
    /\ form' = IdleForm
    /\ UNCHANGED <<cache, building, th, fetches, stored, ops, scan, adv, lookup, retry>>

FormNext ==
    \/ FormCall
    \/ FormExit

\* the tracker reads no file of the cache directory
FormInit == Init /\ cache = EmptyMap

SpecForm == FormInit /\ [][FormNext]_vars

---------------------------------------------------------------------------
(* team_defense_possession.py: attach_z_scores; server2.py: stats_adv.
   Numbers with decimals are integers in thousandths. *)

\* 1 / 1e-6, the eps of _safe_div and of the divisor of attach_z_scores
EpsInv == 1000000

\* round(n / d) for d > 0
RoundDiv(n, d) ==
    IF n >= 0 THEN (2 * n + d) \div (2 * d) ELSE -((2 * (-n) + d) \div (2 * d))

\* team_defense_pos(abbr, season): the per-100 rows of a team whose defense
\* is at the given level (lines 262-279)
TeamDefensePos(levels, abbr, season) ==
    [tag |-> "def", team |-> abbr, season |-> season,
     by_position_per100 |->
        [b \in Buckets |-> [pts_per100 |-> 1000 * levels[abbr],
                            reb_per100 |-> 2000 * levels[abbr],
                            ast_per100 |-> 0]]]

\* league_baseline_z_cached, lines 332-348: the body raises NotImplementedError
LeagueBaselineZCached(season) == [tag |-> "raised"]

\* lines 375-377: (value - mean) / (std or 1e-6)
ZScore(value, mu, sd) ==
    IF sd # 0 THEN RoundDiv(1000 * (value - mu), sd)
    ELSE (value - mu) * EpsInv

\* attach_z_scores, lines 350-392
AttachZScores(base_dict, season, allow_partial) ==
    LET got == LeagueBaselineZCached(season)
        baseline == IF got.tag = "raised" THEN NoneV ELSE got
        bypos == base_dict.by_position_per100
        has(b) == Truthy(baseline) /\ b \in DOMAIN baseline.by_position
        outz == [b \in DOMAIN bypos |->
                    [pts_per100 |-> bypos[b].pts_per100,
                     reb_per100 |-> bypos[b].reb_per100,
                     ast_per100 |-> bypos[b].ast_per100,
                     pts_z |-> IF has(b)
                               THEN ZScore(bypos[b].pts_per100,
                                           baseline.by_position[b].mean.PTS,
                                           baseline.by_position[b].std.PTS)
                               ELSE 0,
                     reb_z |-> IF has(b)
                               THEN ZScore(bypos[b].reb_per100,
                                           baseline.by_position[b].mean.REB,
                                           baseline.by_position[b].std.REB)
                               ELSE 0,
                     ast_z |-> IF has(b)
                               THEN ZScore(bypos[b].ast_per100,
                                           baseline.by_position[b].mean.AST,
                                           baseline.by_position[b].std.AST)
                               ELSE 0]]
    IN IF got.tag = "raised" /\ ~allow_partial
       THEN [tag |-> "raised"]
       ELSE [tag |-> "def", team |-> base_dict.team, season |-> season,
             by_position_per100 |-> bypos, by_position_per100_z |-> outz]

\* server2.to_bucket, lines 132-137: the part before the first "-"
ToBucket(pos) ==
    CASE pos \in {"G", "PG"} -> "G"
      [] pos = "F-C" -> "F"
      [] pos = "C" -> "C"
      [] OTHER -> "OTHER"

\* max(season_avg, 1e-6) as a fraction
MaxEps(season_avg) ==
    IF season_avg > 0 THEN [num |-> season_avg, den |-> 1]
    ELSE [num |-> 1, den |-> EpsInv]

\* _safe_div, lines 162-163, for an integer a and a positive fraction b
SafeDiv(a, b) ==
    IF b.num * EpsInv > b.den THEN [num |-> a * b.den, den |-> b.num]
    ELSE [num |-> a * EpsInv, den |-> 1]

\* a clamp to a hundred times the bounds
ClampPercent(x, lo, hi) ==
    IF x.num > 100 * hi * x.den THEN [num |-> 100 * hi, den |-> 1]
    ELSE IF x.num < 100 * lo * x.den THEN [num |-> 100 * lo, den |-> 1]
    ELSE x

\* _clamp, lines 165-166: max(lo, min(hi, x)) for a fraction x
Clamp(x, lo, hi) ==
    IF x.num > hi * x.den THEN [num |-> hi, den |-> 1]
    ELSE IF x.num < lo * x.den THEN [num |-> lo, den |-> 1]
    ELSE x

ZOf(zrow, stat) ==
    CASE stat = "PTS" -> zrow.pts_z [] stat = "REB" -> zrow.reb_z
      [] OTHER -> zrow.ast_z

\* stats_adv, lines 187-232, for one player of the match and one stat
StatsAdv ==
    /\ adv.pc = "idle"
    /\ \E home \in Teams, away \in Teams, side \in {"home", "away"},
          pos \in {"G", "F-C", "C", "PG", ""}, stat \in Stats, season_avg \in 0..MaxAvg,
          last5_avg \in 0..MaxAvg, levels \in [Teams -> 0..MaxPer100] :
          /\ home # away
          /\ LET season == "2025-26"
                 opp == IF side = "home" THEN away ELSE home
                 opp_def == AttachZScores(TeamDefensePos(levels, opp, season),
                                          season, TRUE)
                 bucket == ToBucket(pos)
                 zrow == opp_def.by_position_per100_z[bucket]
                 z == ZOf(zrow, stat)
                 d == Clamp(SafeDiv(season_avg - last5_avg,
                                    MaxEps(season_avg)), -1, 1)
             IN adv' = [pc |-> "done", kind |-> "stats_adv",
                        levels |-> levels, team |-> opp, bucket |-> bucket,
                        stat |-> stat, season_avg |-> season_avg,
                        last5_avg |-> last5_avg, z |-> z,
                        d |-> RoundDiv(1000 * d.num, d.den),
                        adv_score |-> RoundDiv(z * d.den + 1000 * d.num, d.den),
                        result |-> opp_def]
    /\ UNCHANGED <<cache, building, th, fetches, stored, ops, scan, form, lookup, retry>>

\* team_defense_pos_endpoint, lines 120-128 of server2.py
TeamDefensePosEndpoint ==
    /\ adv.pc = "idle"
    /\ \E team \in Teams, levels \in [Teams -> 0..MaxPer100] :
          adv' = [pc |-> "done", kind |-> "endpoint", levels |-> levels,
                  team |-> team, bucket |-> "", stat |-> "",
                  season_avg |-> 0, last5_avg |-> 0, z |-> 0, d |-> 0,
                  adv_score |-> 0,
                  result |-> AttachZScores(
                                TeamDefensePos(levels, team, "2025-26"),
                                "2025-26", FALSE)]
    /\ UNCHANGED <<cache, building, th, fetches, stored, ops, scan, form, lookup, retry>>

\* the response is sent
AdvExit ==
    /\ adv.pc = "done"
    /\ adv' = [pc |-> "idle"]
    /\ UNCHANGED <<cache, building, th, fetches, stored, ops, scan, form, lookup, retry>>

AdvNext ==
    \/ StatsAdv
    \/ TeamDefensePosEndpoint
    \/ AdvExit

SpecAdv == FormInit /\ [][AdvNext]_vars

---------------------------------------------------------------------------
(* Team resolution, one call at a time *)

\* get_team_id(team_name)
LookupTeamId ==
    /\ lookup.pc = "idle"
    /\ \E team_name \in Identifiers :
          lookup' = [pc |-> "done", by |-> "get_team_id", identifier |-> team_name,
                     result |-> GetTeamId(team_name)]
    /\ UNCHANGED <<cache, building, th, fetches, stored, ops, scan, form, adv, retry>>

\* compute_team_defense_vs_roles upper-cases its target (line 332), rejects
\* the empty one (line 334) and hands it to get_team_game_ids (line 357)
LookupGameTeam ==
    /\ lookup.pc = "idle"
    /\ \E target_team_abbr \in Identifiers :
          lookup' = [pc |-> "done", by |-> "get_team_game_ids",
                     identifier |-> target_team_abbr,
                     result |-> IF StrUpper(target_team_abbr) = <<>> THEN NotFound
                                ELSE ResolveTeam(StrUpper(target_team_abbr))]
    /\ UNCHANGED <<cache, building, th, fetches, stored, ops, scan, form, adv, retry>>

LookupExit ==
    /\ lookup.pc = "done"
    /\ lookup' = [pc |-> "idle"]
    /\ UNCHANGED <<cache, building, th, fetches, stored, ops, scan, form, adv, retry>>

LookupNext == LookupTeamId \/ LookupGameTeam \/ LookupExit

SpecLookup == FormInit /\ [][LookupNext]_vars

---------------------------------------------------------------------------
(* Requests by any identifier: /team-defense?team=<text>.  The handlers are
   those of Spec; the team is what the caller typed. *)

\* server.team_defense, lines 154-168, and get_team_defense_from_cache,
\* lines 562-564
RequestId(w, team, season, exclude_dnp) ==
    /\ th[w].pc = "idle"
    /\ IF team = "" \/ UpperName(team) = ""
       THEN th' = [th EXCEPT ![w].team = team, ![w].season = season,
                             ![w].ex = exclude_dnp, ![w].status = "error",
                             ![w].pc = "done"]
       ELSE th' = [th EXCEPT ![w].team = UpperName(team),
                             ![w].season = season, ![w].ex = exclude_dnp,
                             ![w].pc = "gt_all"]
    /\ UNCHANGED <<cache, building, fetches, stored, ops, scan, form, adv, lookup, retry>>

IdsNext ==
    \/ \E w \in Workers, team \in Teams \cup {"", "zzz", "Hawks"}, season \in Seasons, ex \in BOOLEAN :
          RequestId(w, team, season, ex)
    \/ \E w \in Workers : GtAll(w) \/ CpAll(w) \/ SwCheck(w) \/ SwLock(w) \/ SwSpawn(w)
    \/ \E t \in Threads : CpTeam(t) \/ CpSave(t) \/ UpLoad(t) \/ UpSave(t)
    \/ \E r \in Runners : WlLoad(r) \/ WlSave(r) \/ WarmRaise(r) \/ Fin(r)

SpecIds == Init /\ [][IdsNext]_vars


---------------------------------------------------------------------------
(* The provider calls and their retry loops: TeamGameLog and
   LeagueGameFinder in get_team_game_ids, CommonTeamRoster in
   build_player_position_map, BoxScoreTraditionalV2 in the game loop.
   retry.log lists the calls made: <<call, unit of work, outcome>>. *)

Tries == 3

\* the attempts a call site makes for one unit of work before it gives up
TriesOf(call) ==
    CASE call = "tgl" -> Tries           \* lines 257-278
      [] call = "box" -> Tries           \* lines 376-385
      [] call = "lgf" -> 1               \* lines 281-294, no loop
      [] call = "roster" -> 1            \* lines 136-152, no loop

\* the units of work of a call site, in the order of its loop
UnitsOf(call, season_types) ==
    CASE call = "tgl" -> season_types
      [] call = "lgf" -> <<"all">>
      [] call = "roster" -> SortedTeams
      [] call = "box" -> <<"game">>

\* one provider call returned or raised: the loop retries the unit, moves
\* to the next unit, or leaves the call site
AfterAttempt(r, outcome) ==
    LET units == UnitsOf(r.pc, r.types)
        logged == [r EXCEPT !.log = Append(@, <<r.pc, units[r.i], outcome>>)]
        leave == outcome # "error" \/ r.attempt + 1 >= TriesOf(r.pc)
    IN IF ~leave THEN [logged EXCEPT !.attempt = @ + 1]
       ELSE IF r.i < Len(units) THEN [logged EXCEPT !.i = @ + 1, !.attempt = 0]
       ELSE [logged EXCEPT !.pc = IF r.pc = "tgl" THEN "lgf" ELSE "done", !.i = 1, !.attempt = 0]

\* get_team_game_ids enters its TeamGameLog loop (line 256),
\* build_player_position_map its roster loop (line 135), the game loop its
\* boxscore fetch (line 375)
RetryStart ==
    /\ retry.pc = "idle"
    /\ \E call \in {"tgl", "roster", "box"}, season_types \in ScanSeasonTypes :
          /\ call # "tgl" => season_types = DefaultSeasonTypes
          /\ retry' = [pc |-> call, types |-> season_types, i |-> 1,
                       attempt |-> 0, log |-> <<>>]
    /\ UNCHANGED <<cache, building, th, fetches, stored, ops, scan, form, adv, lookup>>

\* the provider answers one call with rows, with no rows, or fails
RetryAttempt ==
    /\ retry.pc \in {"tgl", "lgf", "roster", "box"}
    /\ \E outcome \in {"rows", "empty", "error"} : retry' = AfterAttempt(retry, outcome)
    /\ UNCHANGED <<cache, building, th, fetches, stored, ops, scan, form, adv, lookup>>

RetryExit ==
    /\ retry.pc = "done"
    /\ retry' = [pc |-> "idle"]
    /\ UNCHANGED <<cache, building, th, fetches, stored, ops, scan, form, adv, lookup>>

RetryNext == RetryStart \/ RetryAttempt \/ RetryExit

SpecRetry == FormInit /\ [][RetryNext]_vars

---------------------------------------------------------------------------
(* Cache warmer: _schedule_all_cache_build *)

ConcurrentCalls(w1, w2) ==
    w1 # w2 /\ w2 \in th[w1].overlap /\ Key(w1) = Key(w2)

\* the call of handler w found the bulk cache not ready at line 23
PassedFirstCheck(w) == th[w].warm \in {"ready2", "dup", "started"}

Started(w) == th[w].pc = "sw_spawn" \/ th[w].warm = "started"

\* C1 as stated: two concurrent calls for one key, both made while the bulk
\* cache is not ready, have started exactly one build when both have returned.
C1_ExactlyOneBuild ==
    \A w1, w2 \in Workers :
        (/\ ConcurrentCalls(w1, w2)
         /\ th[w1].pc = "done" /\ th[w2].pc = "done"
         /\ PassedFirstCheck(w1) /\ PassedFirstCheck(w2))
        => Cardinality({w \in {w1, w2} : th[w].warm = "started"}) = 1

\* C1 amended: two concurrent calls for one key never have two builds in
\* flight at once. A call that takes the lock while a build of the key is
\* pending or running starts none, and a call returns as a duplicate only
\* then; both calls start a build only if the build of the first had already
\* ended when the second took the lock.
C1_OneBuildInFlight ==
    \A w1, w2 \in Workers :
        ConcurrentCalls(w1, w2) =>
            /\ ~(InFlight(w1) /\ InFlight(w2))
            /\ \A w \in {w1, w2} : th[w].inflight # {} => ~Started(w)
            /\ \A w \in {w1, w2} : th[w].warm = "dup" => th[w].inflight # {}
            /\ (Started(w1) /\ Started(w2))
                  => (w1 \in th[w2].ended \/ w2 \in th[w1].ended)

\* two concurrent calls have returned, one started the build and the other
\* found the key in _cache_building
C1_Witness ==
    \E w1, w2 \in Workers :
        /\ ConcurrentCalls(w1, w2)
        /\ th[w1].pc = "done" /\ th[w2].pc = "done"
        /\ th[w1].warm = "started" /\ th[w2].warm = "dup"
        /\ w1 \in th[w2].inflight

---------------------------------------------------------------------------
(* Bulk-entry writers *)

\* thread t is between the start of a lookup or computation and its last write
Writing(t) ==
    th[t].pc \in {"gt_all", "cp_all", "cp_team", "cp_save", "up_load",
                  "up_save", "wl_load", "wl_save"}

BulkTeams(name) == DOMAIN TeamsOrEmpty(LoadCache(cache, name))

\* C2: once all writers have finished, the bulk entry of a key contains every
\* team that any writer merged into it.
C2_NoMergeLost ==
    (\A t \in Threads : ~Writing(t))
        => \A m \in stored : m[2] \in BulkTeams(m[1])

---------------------------------------------------------------------------
(* The warm build *)

\* C3: a build that was started on a bulk cache that was not ready, in which
\* no per-team computation failed and which returned, leaves is_bulk_ready
\* true at the moment it ends.
C3_BuildMakesReady ==
    [][\A r \in Runners :
          (/\ th[r].pc # "fin" /\ th'[r].pc = "fin"
           /\ th'[r].status = "returned"
           /\ th'[r].prior \in {"absent", "partial"}
           /\ th'[r].failed = {})
          => IsAllTeamCacheReady(cache', th'[r].season, th'[r].ex,
                                 DefaultRoleMode, DefaultSeasonTypes)]_vars

Keys == Seasons \X BOOLEAN

\* C4: a key is in _cache_building only while a build of it is pending or
\* running (never after its build thread has ended, whether the warm pass
\* returned or raised), and every key in the set is eventually removed.
C4_KeyReturnsToIdle ==
    /\ [](\A k \in building : \E w \in Workers : InFlight(w) /\ Key(w) = k)
    /\ [](\A r \in Runners : th[r].pc = "done" =>
              (Key(r) \in building =>
                  \E w \in Workers : Runner(w) # r /\ InFlight(w) /\ Key(w) = Key(r)))
    /\ \A k \in Keys : (k \in building) ~> (k \notin building)

\* a build raised, its key was released, and a later call started a new
\* build of the same key
C4_Witness ==
    \E w1, w2 \in Workers :
        /\ w1 # w2 /\ Key(w1) = Key(w2)
        /\ th[Runner(w1)].pc = "done" /\ th[Runner(w1)].status = "raised"
        /\ w1 \in th[w2].ended
        /\ th[Runner(w2)].pc \notin {"unborn", "done"}

\* C5: a step of _schedule_all_cache_build taken while the bulk cache is ready
\* returns and changes nothing: no key is inserted, no thread is started, no
\* cache entry is written and the provider is not called.
C5_WarmIsNoOp ==
    [][\A w \in Workers :
          (/\ th[w].pc \in {"sw_check", "sw_lock"} /\ th'[w].pc # th[w].pc
           /\ Ready(w))
          => /\ th'[w].pc = "done"
             /\ building' = building /\ cache' = cache
             /\ fetches' = fetches /\ stored' = stored
             /\ \A r \in Runners : th'[r] = th[r]]_vars

\* a call returned at line 23 because the bulk cache was ready
C5_Witness ==
    \E w \in Workers : th[w].pc = "done" /\ th[w].warm = "ready1" /\ Ready(w)

---------------------------------------------------------------------------
(* Lookup order of get_team_defense_from_cache *)

\* the bulk entry of thread t's key exists and holds t's team
InBulk(c, t) ==
    LET name == AllName(t)
    IN /\ name \in DOMAIN c /\ c[name].tag = "all" /\ c[name].has_teams
       /\ th[t].team \in DOMAIN c[name].teams

\* the per-team entry of thread t's team exists
InTeamFile(c, t) ==
    TeamName(t) \in DOMAIN c /\ c[TeamName(t)].tag = "agg"

Quiet == cache' = cache /\ fetches' = fetches /\ stored' = stored

\* C6: a handler's lookup goes bulk entry first (both reads of it), then the
\* per-team entry; a hit at either tier returns that entry with no provider
\* call and no cache write; the provider is called only after the bulk entry
\* lacked the team and the per-team entry was absent.
C6_LookupOrder ==
    [][\A w \in Workers :
          /\ (th[w].pc \in {"gt_all", "cp_all"} /\ th'[w].pc # th[w].pc)
                => IF InBulk(cache, w)
                   THEN /\ th'[w].ret = cache[AllName(w)].teams[th[w].team]
                        /\ th'[w].pc = "sw_check" /\ Quiet
                   ELSE /\ th'[w].pc = IF th[w].pc = "gt_all" THEN "cp_all"
                                       ELSE "cp_team"
                        /\ Quiet
          /\ (th[w].pc = "cp_team" /\ th'[w].pc # th[w].pc)
                => IF InTeamFile(cache, w)
                   THEN /\ th'[w].ret = cache[TeamName(w)]
                        /\ th'[w].pc = "sw_check" /\ Quiet
                   ELSE /\ <<w, th[w].team>> \in fetches'
                        /\ th'[w].pc \in {"cp_save", "done"}]_vars

\* a request was answered from the per-team entry while the bulk entry did
\* not hold its team
C6_Witness ==
    \E w \in Workers :
        /\ th[w].tier = "team" /\ th[w].status = "ok"
        /\ th[w].ret = cache[TeamName(w)]
        /\ <<w, th[w].team>> \notin fetches

---------------------------------------------------------------------------
(* Effect of a computed aggregate on the cache (sequential runs) *)

Computed(t) ==
    /\ th[t].kind \in {"cli", "get"} /\ th[t].pc = "done"
    /\ th[t].status = "ok" /\ th[t].tier = "computed"

---------------------------------------------------------------------------
(* is_all_team_cache_ready *)

BulkFile(k) ==
    AllCacheName(k[1], k[2], DefaultRoleMode, SeasonTypesKey(DefaultSeasonTypes))

\* C8: is_all_team_cache_ready is true exactly when the bulk file of the key
\* exists, can be parsed, has a teams map, and that map holds at least as
\* many teams as there are known abbreviations.
C8_ReadyIff ==
    \A k \in Keys :
        IsAllTeamCacheReady(cache, k[1], k[2], DefaultRoleMode, DefaultSeasonTypes)
          <=> /\ BulkFile(k) \in DOMAIN cache
              /\ cache[BulkFile(k)].tag = "all"
              /\ cache[BulkFile(k)].has_teams
              /\ Cardinality(DOMAIN cache[BulkFile(k)].teams) >= Cardinality(Teams)

\* a handler found one key ready at line 23 while the bulk file of another
\* key is unreadable, malformed or short of teams
C8_Witness ==
    /\ \E w \in Workers : th[w].warm = "ready1" /\ Ready(w)
    /\ \E k \in Keys :
          /\ BulkFile(k) \in DOMAIN cache
          /\ ~IsAllTeamCacheReady(cache, k[1], k[2], DefaultRoleMode,
                                  DefaultSeasonTypes)

---------------------------------------------------------------------------
(* Cache keys *)

Calling(t) == th[t].kind \in {"cli", "get"} /\ th[t].pc # "idle"

\* C9: a per-team entry computed for the team, season, DNP flag, role_mode
\* and set of season types of the running request is stored under the key
\* of that request, whatever the order in which the season types were given.
C9_SameSetSameKey ==
    \A name \in DOMAIN cache :
        (/\ Calling(Main) /\ cache[name].tag = "agg"
         /\ cache[name].target_team_abbr = th[Main].team
         /\ cache[name].season = th[Main].season
         /\ cache[name].exclude_dnp = th[Main].ex
         /\ cache[name].role_mode = th[Main].role
         /\ SetOf(cache[name].season_types) = SetOf(th[Main].st))
        => name = TeamName(Main)

\* C10: an aggregate served from the bulk or the per-team cache was computed
\* under the role_mode of the request: it records that role_mode and its
\* buckets are those the policy of that role_mode yields.
C10_RolePolicyKept ==
    \A t \in Workers :
        (th[t].status = "ok" /\ th[t].tier \in {"bulk", "team"})
        => /\ th[t].ret.role_mode = th[t].role
           /\ th[t].ret.by_position =
                 ByPosition(th[t].ret.games_scanned, th[t].role,
                            th[t].ret.exclude_dnp)

\* a run with a role_mode other than the default was served from the bulk
\* cache, DNP rows included
C10_Witness ==
    /\ th[Main].kind = "cli" /\ th[Main].pc = "done"
    /\ th[Main].tier = "bulk" /\ th[Main].role = "roster" /\ ~th[Main].ex
    /\ th[Main].ret.games_scanned > 0

---------------------------------------------------------------------------
(* Refresh of an aggregate *)

\* C11: a command-line run for a team with the refresh flag set does not
\* return a cached aggregate: the value it returns was recomputed.
C11_RefreshRecomputes ==
    (/\ th[Main].kind = "cli" /\ th[Main].pc = "done"
     /\ th[Main].status = "ok" /\ th[Main].refresh)
    => th[Main].tier = "computed"

---------------------------------------------------------------------------
(* Games discovery *)

\* ids persisted in directory c for the team, season and season types of the
\* followed aggregation
PersistedIds(c) ==
    LET name == GamesCacheName(scan.team, scan.season, SeasonTypesKey(scan.st))
    IN IF name \in DOMAIN c /\ c[name].tag = "games"
       THEN SetOf(c[name].game_ids) ELSE {}

\* get_team_game_ids has returned to the followed aggregation
Resolved == scan.pc = "games" \/ (scan.pc = "done" /\ scan.tier = "computed")

\* C12: the ids persisted after a call of get_team_game_ids are a superset
\* of the ids persisted before it.
C12_NeverShrinks ==
    Resolved => PersistedIds(scan.pre) \subseteq PersistedIds(cache)

\* C13: the list returned by get_team_game_ids holds exactly the ids of the
\* queries that answered and, without refresh, the ids cached before; no id
\* is in it twice; the same list is persisted.
C13_UnionOfStrategies ==
    Resolved =>
        /\ SetOf(scan.ids) =
              scan.answered
                \cup (IF scan.refresh THEN {} ELSE PersistedIds(scan.pre))
        /\ Len(scan.ids) = Cardinality(SetOf(scan.ids))
        /\ PersistedIds(cache) = SetOf(scan.ids)

\* a call without refresh on a cache that held some ids, in which the game
\* logs of two season types and the game finder answered overlapping ids
C13_Witness ==
    /\ Resolved /\ ~scan.refresh /\ Len(scan.st) = 2
    /\ PersistedIds(scan.pre) # {} /\ PersistedIds(scan.pre) # Games
    /\ scan.answered = Games /\ Len(scan.ids) = NumGames

\* C14: when no query yields an id and the call has nothing to return, the
\* call signals a retrieval error.
C14_FailsWhenNothing ==
    (Resolved /\ scan.answered = {} /\ scan.ids = << >>)
        => scan.status = "error"

---------------------------------------------------------------------------
(* Boxscore store *)

\* C15: a game whose rows are persisted when an aggregation starts is not
\* fetched from the provider and its entry is not rewritten.
C15_PersistedNotFetched ==
    \A g \in scan.fetched \cup scan.rewrote :
        BoxCacheName(g) \notin DOMAIN scan.pre

Scanned == SetOf(scan.ids) \ (SetOf(scan.todo) \cup scan.skipped)

\* the step of the loop for the next game
GameStep == scan.pc = "games" /\ scan.todo # << >> /\ scan' # scan

\* rows of game g that the aggregation of the followed team counts
OpponentRows(g) ==
    {i \in 1..Len(BoxRows(g)) :
        /\ BoxRows(g)[i].team # scan.team
        /\ ~(scan.ex /\ BoxRows(g)[i].min \in {"", "0:00"})}

\* C16: a game whose boxscore attempts all failed is skipped: the step
\* writes no file and changes no total and no counter, the loop goes on
\* with the next game, and the aggregate is returned with games_scanned
\* counting the other games that have opponent rows.
C16_UnscannableSkipped ==
    /\ [][(GameStep /\ scan'.skipped # scan.skipped)
             => /\ cache' = cache /\ scan'.acc = scan.acc
                /\ scan'.pc = "games" /\ scan'.todo = Tail(scan.todo)]_vars
    /\ [](scan.pc = "done" /\ scan.tier # "bulk" /\ scan.tier # "team"
             => /\ scan.out.tag = "agg"
                /\ \A g \in scan.skipped :
                      BoxCacheName(g) \in DOMAIN cache
                          => BoxCacheName(g) \in DOMAIN scan.pre
                /\ scan.out.games_scanned =
                      Cardinality({g \in Scanned : OpponentRows(g) # {}}))

\* an aggregate was returned after a skipped game was followed by a scanned one
C16_Witness ==
    /\ scan.pc = "done" /\ scan.out.games_scanned > 0
    /\ \E g \in scan.skipped, h \in Scanned : g < h

---------------------------------------------------------------------------
(* Totals and averages *)

GamesWith(totals, b) ==
    IF b \in DOMAIN totals THEN totals[b].games_with_bucket ELSE 0

\* C17: in the running totals and in every returned aggregate a bucket is
\* present in at most games_scanned games, and when it is present in fewer
\* its per-game average is at most its average when present.
C17_PresenceBounded ==
    /\ \A b \in DOMAIN scan.acc.totals :
          scan.acc.totals[b].games_with_bucket <= scan.acc.games_scanned
    /\ scan.pc = "done" =>
          \A b \in DOMAIN scan.out.by_position :
              LET m == scan.out.by_position[b]
              IN /\ m.games_with_bucket <= m.games_scanned
                 /\ m.games_with_bucket < m.games_scanned =>
                       /\ m.pts_per_game <= m.pts_per_game_when_present
                       /\ m.reb_per_game <= m.reb_per_game_when_present
                       /\ m.ast_per_game <= m.ast_per_game_when_present

\* an aggregate with a bucket that scored and is present in fewer games
\* than were scanned
C17_Witness ==
    /\ scan.pc = "done"
    /\ \E b \in DOMAIN scan.out.by_position :
          /\ scan.out.by_position[b].games_with_bucket
                < scan.out.by_position[b].games_scanned
          /\ scan.out.by_position[b].total_pts_sum > 0

RECURSIVE SumF(_, _)
\* the sum of f over the set S
SumF(f, S) ==
    IF S = {} THEN 0
    ELSE LET x == CHOOSE y \in S : TRUE IN f[x] + SumF(f, S \ {x})

RawStat(r, stat) ==
    LET v == CASE stat = "PTS" -> r.pts [] stat = "REB" -> r.reb [] OTHER -> r.ast
    IN IF v = NullStat THEN 0 ELSE v

TotalOf(totals, b, stat) ==
    CASE stat = "PTS" -> totals[b].PTS_sum
      [] stat = "REB" -> totals[b].REB_sum
      [] OTHER -> totals[b].AST_sum

SumTotals(totals, stat) ==
    SumF([b \in DOMAIN totals |-> TotalOf(totals, b, stat)], DOMAIN totals)

Dist(a, b) == IF a >= b THEN a - b ELSE b - a

\* v is total / n rounded to thousandths, 0 for n = 0
IsAverage(v, total, n) ==
    IF n = 0 THEN v = 0 ELSE 2 * Dist(v * n, 1000 * total) <= n

\* C19: a scanned game adds one to games_with_bucket of exactly the buckets
\* that hold one of its counted opponent rows; in the returned aggregate
\* per_game is total / games_scanned and per_game_when_present is
\* total / games_with_bucket. Sums 12 and 18 in 2 of 3 scanned games give
\* 10.0 and 15.0; sums 10 and 8 in 2 of 2 give 9.0 and 9.0.
C19_PresencePerGame ==
    /\ [][(GameStep /\ scan'.skipped = scan.skipped) =>
             LET g == Head(scan.todo)
             IN \A b \in Buckets :
                   GamesWith(scan'.acc.totals, b) - GamesWith(scan.acc.totals, b)
                     = IF \E i \in OpponentRows(g) :
                             BucketOfRow(BoxRows(g)[i], scan.role) = b
                       THEN 1 ELSE 0]_vars
    /\ [](scan.pc = "done" =>
             /\ \A b \in DOMAIN scan.out.by_position :
                   LET m == scan.out.by_position[b]
                   IN /\ IsAverage(m.pts_per_game, m.total_pts_sum, m.games_scanned)
                      /\ IsAverage(m.reb_per_game, m.total_reb_sum, m.games_scanned)
                      /\ IsAverage(m.ast_per_game, m.total_ast_sum, m.games_scanned)
                      /\ IsAverage(m.pts_per_game_when_present,
                                   m.total_pts_sum, m.games_with_bucket)
                      /\ IsAverage(m.reb_per_game_when_present,
                                   m.total_reb_sum, m.games_with_bucket)
                      /\ IsAverage(m.ast_per_game_when_present,
                                   m.total_ast_sum, m.games_with_bucket)
             /\ (scan.team = "ATL" /\ scan.role = "start" /\ Scanned = {1, 2, 3})
                   => /\ scan.out.by_position["F"].pts_per_game = 10000
                      /\ scan.out.by_position["F"].pts_per_game_when_present = 15000
             /\ (scan.team = "BOS" /\ scan.role = "start" /\ Scanned = {1, 2})
                   => /\ scan.out.by_position["C"].pts_per_game = 9000
                      /\ scan.out.by_position["C"].pts_per_game_when_present = 9000)

\* forwards scored 12 and 18 against ATL in two of three scanned games, and
\* a bucket was present in a game with a row whose stats are all null
C19_Witness ==
    /\ scan.pc = "done" /\ scan.team = "ATL" /\ ~scan.ex
    /\ Scanned = {1, 2, 3}
    /\ scan.out.by_position["F"].total_pts_sum = 30
    /\ scan.out.by_position["F"].games_with_bucket = 2
    /\ scan.out.by_position["F"].games_scanned = 3

---------------------------------------------------------------------------
(* Player form *)

\* the position in the log of the game of date d
RowOn(d) == (CHOOSE i \in 1..Len(form.log) : form.log[i].date = d)

\* the dates of the up to five games before the game of date n whose stat
\* is a number
Preceding(n) ==
    {d \in 1..(n - 1) : d >= n - 5 /\ form.log[RowOn(d)].val # NullStat}

---------------------------------------------------------------------------
(* Advantage score and z-scores *)

LeagueValue(t, b, stat) ==
    LET row == TeamDefensePos(adv.levels, t, "2025-26").by_position_per100[b]
    IN CASE stat = "PTS" -> row.pts_per100 [] stat = "REB" -> row.reb_per100
         [] OTHER -> row.ast_per100

LeagueSum(b, stat) ==
    SumF([t \in Teams |-> LeagueValue(t, b, stat)], Teams)

\* C22: attach_z_scores returns a z for every bucket and stat of the team;
\* it is 0 for a value equal to the league mean, and not 0 for a value
\* different from the mean when the values of the league are not all equal.
C22_ZFromBaseline ==
    adv.pc = "done" =>
        /\ adv.result.tag = "def"
        /\ \A b \in Buckets, stat \in Stats :
              LET v == LeagueValue(adv.team, b, stat)
                  z == ZOf(adv.result.by_position_per100_z[b], stat)
                  n == Cardinality(Teams)
              IN /\ v * n = LeagueSum(b, stat) => z = 0
                 /\ (/\ v * n # LeagueSum(b, stat)
                     /\ \E t \in Teams : LeagueValue(t, b, stat) # v) => z # 0

---------------------------------------------------------------------------
(* Team resolution *)

Normalized(s) == StrLower(Strip(s))

IsExact(s) ==
    \/ \E t \in Teams : StrLower(FullNameOf(t)) = Normalized(s)
    \/ \E t \in Teams : StrLower(AbbrChars(t)) = Normalized(s)
    \/ (IsNumeric(s) /\ Len(Strip(s)) <= 10 /\ \E t \in Teams : TeamIdOf(t) = ParseDigits(Strip(s)))

NameMatches(s) == {t \in Teams : IsSubstr(Normalized(s), StrLower(FullNameOf(t)))}

\* C23: in both resolvers, an identifier that is no exact full name, no
\* abbreviation and no valid numeric id is rejected with not-found when it
\* is a substring of more than one full name, and resolves to the team when
\* it is a substring of exactly one.
C23_NoArbitraryPick ==
    (lookup.pc = "done" /\ Normalized(lookup.identifier) # <<>>
        /\ ~IsExact(lookup.identifier)) =>
        /\ Cardinality(NameMatches(lookup.identifier)) > 1 => lookup.result = NotFound
        /\ Cardinality(NameMatches(lookup.identifier)) = 1 =>
              lookup.result = Found(CHOOSE t \in NameMatches(lookup.identifier) : TRUE)

---------------------------------------------------------------------------
(* Requests for a team that does not exist *)

---------------------------------------------------------------------------
(* Completeness of a ready bulk entry *)

\* C29: whenever is_all_team_cache_ready holds for a key, the bulk entry of
\* that key holds an aggregate for every known team abbreviation, and every
\* key of its teams map is a known abbreviation.
C29_ReadyMeansComplete ==
    \A season \in Seasons, ex \in BOOLEAN :
        IsAllTeamCacheReady(cache, season, ex, DefaultRoleMode, DefaultSeasonTypes) =>
            LET cached == LoadAllCache(cache, season, ex, DefaultRoleMode,
                                       SeasonTypesKey(DefaultSeasonTypes))
            IN /\ DOMAIN cached.teams \subseteq Teams
               /\ \A t \in Teams : /\ t \in DOMAIN cached.teams
                                   /\ cached.teams[t].tag = "agg"

---------------------------------------------------------------------------
(* One build per key *)

BuildKeys == {<<season, ex>> : season \in Seasons, ex \in BOOLEAN}

\* the build threads of key k that were started and have not ended
RunningThreads(k) ==
    {r \in Runners : th[r].pc \notin {"unborn", "done"} /\ Key(r) = k}

\* the builds of key k from the insertion of the key (line 32) to its
\* removal by _runner (line 39)
BuildsInFlight(k) == {w \in Workers : InFlight(w) /\ Key(w) = k}

\* C25 as stated: for every key the number of running build threads is at
\* most one, and is one exactly when the key is in _cache_building; a call
\* that found the key in the set started no thread.
C25_OneRunningThread ==
    /\ \A k \in BuildKeys :
          /\ Cardinality(RunningThreads(k)) <= 1
          /\ Cardinality(RunningThreads(k)) = 1 <=> k \in building
    /\ \A w \in Workers : th[w].warm = "dup" => th[Runner(w)].pc = "unborn"

\* C25 amended: for every key at most one build thread runs, and the key is
\* in _cache_building exactly while one build of it is in flight, a build
\* being in flight from the insertion of its key, which precedes the start
\* of its thread, until its thread removes the key; a call that found the
\* key in the set started no thread.
C25_OneBuildPerKey ==
    /\ \A k \in BuildKeys :
          /\ Cardinality(RunningThreads(k)) <= 1
          /\ Cardinality(BuildsInFlight(k)) <= 1
          /\ Cardinality(BuildsInFlight(k)) = 1 <=> k \in building
          /\ RunningThreads(k) # {} => k \in building
    /\ \A w \in Workers : th[w].warm = "dup" => th[Runner(w)].pc = "unborn"

\* a call found the key in the set while the build that inserted it had not
\* yet started its thread
C25_Witness ==
    \E w, v \in Workers :
        /\ th[w].pc = "sw_spawn" /\ Key(w) \in building
        /\ RunningThreads(Key(w)) = {}
        /\ th[v].pc = "done" /\ th[v].warm = "dup" /\ Key(v) = Key(w)

---------------------------------------------------------------------------
(* The warm pass and failing teams *)

PassPcs == {"cp_team", "cp_save", "up_load", "up_save", "wl_save"}

\* the teams the loop of runner r has left behind
Attempted(rec) ==
    {SortedTeams[i] : i \in 1..(NumTeams - Len(rec.todo))}

\* the loop of runner r is at the head of the teams it has not yet tried,
\* and every team before it either succeeded or failed
LoopShape(rec) ==
    /\ rec.todo = SubSeq(SortedTeams, NumTeams - Len(rec.todo) + 1, NumTeams)
    /\ rec.pc # "wl_save" => rec.team = Head(rec.todo)
    /\ rec.pc = "wl_save" => rec.todo = <<>>
    /\ DOMAIN rec.results \cup rec.failed = Attempted(rec)
    /\ DOMAIN rec.results \cap rec.failed = {}

\* C26: in a warm pass a team whose computation fails is skipped: the loop
\* goes on with the next team (or the final write) and never tries the team
\* again, every known team is tried exactly once in sorted order, and the
\* pass ends by writing a bulk entry whose teams are exactly those that
\* succeeded.
C26_FailureSkipped ==
    [][\A r \in Runners :
          /\ th'[r].pc \in PassPcs => LoopShape(th'[r])
          /\ (th[r].pc = "cp_team" /\ th'[r] # th[r] /\ th'[r].pc # "cp_save") =>
                /\ th'[r].pc \in {"cp_team", "wl_save"}
                /\ th'[r].todo = Tail(th[r].todo)
                /\ \/ /\ th'[r].failed = th[r].failed \cup {th[r].team}
                      /\ th'[r].results = th[r].results
                      /\ cache' = cache
                   \/ /\ th'[r].failed = th[r].failed
                      /\ DOMAIN th'[r].results = DOMAIN th[r].results \cup {th[r].team}
          /\ (th[r].pc = "wl_save" /\ th'[r].status = "returned") =>
                /\ DOMAIN th[r].results = Teams \ th[r].failed
                /\ cache'[AllName(r)].tag = "all"
                /\ cache'[AllName(r)].teams = th[r].results]_vars

\* a pass wrote its bulk entry after one team failed and another succeeded
C26_Witness ==
    \E r \in Runners :
        /\ th[r].pc = "fin" /\ th[r].status = "returned" /\ th[r].tier = "computed"
        /\ th[r].failed # {} /\ th[r].results # EmptyMap
        /\ Head(SortedTeams) \in th[r].failed
        /\ cache[AllName(r)].teams = th[r].results

---------------------------------------------------------------------------
(* Retries of the provider calls *)

\* the outcomes of the calls made for one unit of work, in order
AttemptsOf(call, unit) ==
    SelectSeq(retry.log, LAMBDA e : e[1] = call /\ e[2] = unit)

\* C27: when a call site is done with a unit of work, the unit was tried at
\* most 3 times, no call followed its first success, and it was given up
\* only after 3 failed attempts: a failed attempt short of the third was
\* followed by another.
C27_ThreeAttempts ==
    retry.pc = "done" =>
        \A e \in {retry.log[k] : k \in 1..Len(retry.log)} :
            LET tried == AttemptsOf(e[1], e[2])
            IN /\ Len(tried) <= 3
               /\ \A k \in 1..(Len(tried) - 1) : tried[k][3] = "error"
               /\ tried[Len(tried)][3] = "error" => Len(tried) = 3

---------------------------------------------------------------------------
(* games_scanned and the order of the games *)

RECURSIVE FoldGames(_)
\* the accumulator after the games of the sequence, first to last
FoldGames(seq) ==
    IF seq = << >> THEN NoAcc
    ELSE AddGame(FoldGames(SubSeq(seq, 1, Len(seq) - 1)),
                 PerGameBucket(BoxRows(seq[Len(seq)]), scan.team, scan.ex,
                               scan.role))

\* the orders in which the games of S can be processed
OrdersOf(S) ==
    {p \in [1..Cardinality(S) -> S] : \A g \in S : \E i \in DOMAIN p : p[i] = g}

\* C28: a game whose boxscore could not be obtained or in which no opponent
\* row passes the filters leaves games_scanned and the totals as they were,
\* every other game adds one to games_scanned; the returned games_scanned
\* is the number of contributing games, and games_scanned and the totals
\* are those of every order of processing the scanned games.
C28_CountsContributing ==
    /\ [][GameStep =>
             LET g == Head(scan.todo)
             IN IF scan'.skipped # scan.skipped \/ OpponentRows(g) = {}
                THEN scan'.acc = scan.acc
                ELSE scan'.acc.games_scanned = scan.acc.games_scanned + 1]_vars
    /\ [](scan.pc = "done" /\ scan.tier = "computed" =>
             /\ scan.out.games_scanned =
                   Cardinality({g \in Scanned : OpponentRows(g) # {}})
             /\ \A p \in OrdersOf(Scanned) :
                   /\ FoldGames(p).games_scanned = scan.out.games_scanned
                   /\ FoldGames(p).totals = scan.acc.totals)

\* an aggregate of BOS without DNP rows: the third game was read and holds
\* no ATL row that played, two games were counted
C28_Witness ==
    /\ scan.pc = "done" /\ scan.tier = "computed"
    /\ scan.team = "BOS" /\ scan.ex
    /\ Scanned = {1, 2, 3} /\ OpponentRows(3) = {}
    /\ scan.out.games_scanned = 2

---------------------------------------------------------------------------
(* Season types of the resolved games *)

\* C30: every game id returned by get_team_game_ids, and so every game
\* scanned into the aggregate, is a game of one of the requested season
\* types: a request for Regular Season only holds no Playoffs game.
C30_RequestedTypesOnly ==
    Resolved =>
        \A g \in SetOf(scan.ids) : SeasonTypeOf(g) \in SetOf(scan.st)

====
